---- MODULE Spec2Model ----
(***************************************************************************)
(* Deployment orchestration of the AutoDeploy backend:                     *)
(*   DeploymentsService (deployToVercel, deployToNetlify, rollback),       *)
(*   VercelService.createDeployment, NetlifyService.createSiteFromRepo,    *)
(*   IntegrationsController.connectProvider.                               *)
(* Every await of a handler is a step: the handler resumes with the answer  *)
(* of the call it waited for, runs to its next call, and that call reads or *)
(* writes the store. Handlers of different requests interleave at their     *)
(* awaits. The answers of the providers, and whether the store accepts a    *)
(* write, are inputs chosen with \E; a read of the store is answered.       *)
(***************************************************************************)
EXTENDS Integers, Sequences, FiniteSets, TLC

\* ------------------------------------------------------------------ bounds
MaxRuns == 2
MaxConnects == 1
MaxRollbacks == 1
MaxCancels == 1
MaxClock == 1
\* the rollback specification: two rollbacks over three different times
MaxRollbackRequests == 2
MaxRollbackClock == 2

\* ------------------------------------------------------------------ inputs
Users == {"u1", "u2"}
\* the users who connect providers and request deployments
Requesters == {"u1"}
Providers == {"vercel", "netlify"}
\* the values of provider_integrations.provider: the two hosts and the GitHub login
IntegrationProviders == Providers \cup {"github"}
ProjectNames == {"p1"}
BuildSettings == {"cfgA"}

\* What an HTTP call to a provider can come back with: a 2xx response, a 401/403
\* response, another non-2xx response, or fetch rejecting (network error, timeout).
HttpOutcomes == {"ok", "auth", "unavailable", "network"}

NoIntegration == [access_token |-> "none", demo |-> FALSE]
NoUrl == [host |-> "none", site |-> "none"]
NoTime == -1
NoResult ==
    [status |-> "none", url |-> NoUrl, automated |-> FALSE, gitConnected |-> FALSE,
     buildLogs |-> <<>>]

\* no rotateUserTokens call has been made, no envelope opened
NoRotation == [pc |-> "idle", user |-> "none", items |-> <<>>, log |-> <<>>, opened |-> <<>>]

\* package.json of a repository that has none
NoFile == [present |-> FALSE, json |-> FALSE, has |-> FALSE, deps |-> {}, dev |-> {}]
\* no analysis has been asked for (repository: what the repository to analyse holds
\* at GitHub, here nothing; inflight: the analysis call that has not returned)
NoAnalysis ==
    [repository |-> [file |-> NoFile, dockerFile |-> FALSE, dirs |-> {}],
     calls |-> <<>>, inflight |-> <<>>, detected |-> <<>>, ranked |-> <<>>]
\* no organization, no project
NoTenancy == [organizations |-> {}, projects |-> {}]
\* a handler that holds no organization / no project yet
NoId == <<>>

VARIABLES
    integrations,     \* provider_integrations rows, keyed by <<userId, provider>>
    deployments,      \* deployments rows; a row's id is its index
    trace,            \* per deployment row: the operation that created it, every status it had
    runs,             \* deployment requests (handlers), running or returned
    timers,           \* pending setTimeout callbacks
    callbacks,        \* updates issued by callbacks that have fired, not yet answered
    rollbacks,        \* rollback requests and what they returned
    cancelRequested,  \* deployment ids a client has asked to cancel
    connects,         \* the connect requests handled and what they returned
    now,              \* the clock new Date() reads
    vault,            \* TokenVault: the rotation in progress, the envelopes it opened
    analysis,         \* the analysis calls made and what each returned
    tenancy,          \* organizations and projects rows
    queries           \* the status queries handled and what they returned

vars ==
    <<integrations, deployments, trace, runs, timers, callbacks, rollbacks,
      cancelRequested, connects, now, vault, analysis, tenancy, queries>>

\* ------------------------------------------------------------------ helpers
DemoTokenOf(provider) ==
    IF provider = "vercel" THEN "demo-vercel-token" ELSE "demo-netlify-token"

\* !tokenData.demo && tokenData.access_token !== 'demo-<provider>-token'
IsRealToken(integ, provider) ==
    /\ integ # NoIntegration
    /\ ~integ.demo
    /\ integ.access_token # DemoTokenOf(provider)

CredentialKind(integ, provider) ==
    IF integ = NoIntegration THEN "none"
    ELSE IF IsRealToken(integ, provider) THEN "real" ELSE "demo"

\* { timestamp: new Date(), message, level }: an element of the logs a write is called
\* with. The arguments of a call are evaluated when the handler makes the call; t is the
\* clock as it was then.
Entry(t, msg, lvl) == [timestamp |-> t, message |-> msg, level |-> lvl]

TerminalStatuses == {"deployed", "requires_setup", "failed"}
InProgressStatuses == {"deploying", "demo_deployment"}

\* deployment.create({ data }): branch: deployment.branch (87, 168, 360), the branch of
\* the request; startedAt is not in data, the store sets it to the time the row is
\* inserted (DEFAULT CURRENT_TIMESTAMP).
NewRecord(projectId, branch, cfg, user, provider, status, logs) ==
    [projectId |-> projectId, branch |-> branch, commitSha |-> "latest",
     status |-> status, provider |-> provider, url |-> NoUrl,
     configuration |-> cfg, createdBy |-> user, logs |-> logs,
     startedAt |-> now, completedAt |-> NoTime]

\* a deployment request and the locals of its handler; issued: what new Date() gave
\* the handler for the arguments of the write it has made and is awaiting
NewRun(user, provider, project, branch, cfg, validUrl) ==
    [user |-> user, provider |-> provider, project |-> project, branch |-> branch,
     cfg |-> cfg,
     validUrl |-> validUrl, pc |-> "new", dep |-> 0, cred |-> "unread",
     isReal |-> FALSE, attempts |-> <<>>, calls |-> <<>>, result |-> NoResult,
     response |-> "pending", dbError |-> FALSE,
     organization |-> NoId, projectId |-> NoId, issued |-> NoTime]

\* an HTTP request of an adapter: to the provider's API or to GitHub's
Call(api, op) == [api |-> api, op |-> op]

Attempt(strategy, dep) ==
    [strategy |-> strategy, outcome |-> "pending", cancelSeen |-> dep \in cancelRequested]

SetOutcome(attempts, o) == [attempts EXCEPT ![Len(attempts)].outcome = o]

\* prisma.deployment.update({ where: { id }, data }): the columns named in data are
\* set to the values given; a column not named keeps its value.
UpdateRow(d, status, url, completed, logs) ==
    /\ deployments' =
         [deployments EXCEPT ![d] =
            [@ EXCEPT !.status = status, !.url = url,
                      !.completedAt = completed, !.logs = logs]]
    /\ trace' = [trace EXCEPT ![d].statuses = Append(@, status)]

\* ------------------------------------------------------------------ Init
Init ==
    /\ integrations = [k \in Users \X IntegrationProviders |-> NoIntegration]
    /\ deployments = <<>>
    /\ trace = <<>>
    /\ runs = <<>>
    /\ timers = {}
    /\ callbacks = {}
    /\ rollbacks = <<>>
    /\ cancelRequested = {}
    /\ connects = <<>>
    /\ now = 0
    /\ vault = NoRotation
    /\ analysis = NoAnalysis
    /\ tenancy = NoTenancy
    /\ queries = <<>>

\* ------------------------------------------------------------------ clock
ClockAdvances ==
    /\ now' = now + 1
    /\ UNCHANGED <<callbacks, tenancy, queries, analysis, vault, integrations, deployments, trace, runs, timers, rollbacks,
                   cancelRequested, connects>>

Tick == now < MaxClock /\ ClockAdvances

\* Time passes until the next pending timer is due.
TimerDue ==
    /\ \E t \in timers : t.due > now
    /\ \A t \in timers : t.due > now
    /\ \E t \in timers :
          /\ \A t2 \in timers : t.due <= t2.due
          /\ now' = t.due
    /\ UNCHANGED <<callbacks, tenancy, queries, analysis, vault, integrations, deployments, trace, runs, timers, rollbacks,
                   cancelRequested, connects>>

\* ------------------------------------------------------------------ connect
\* IntegrationsController.connectProvider: token "" stands for no token given.
StoredToken(provider, token, demo) ==
    [access_token |-> IF token = "" THEN DemoTokenOf(provider) ELSE token,
     demo |-> demo \/ token = ""]

\* a variant that validates every token given, demo flag or not
ConnectValidatesAnyToken(token, demo) == token # ""

\* if (connectionData.token && !connectionData.demo): validateToken is called
ConnectValidates(token, demo) == token # "" /\ ~demo

\* What connectProvider returns: { success: false, message: 'Token validation failed' }
\* when the validation fails, { success: false, message: 'Failed to save integration' }
\* when the upsert rejects, else { success: true, integration: { isDemo: demo || !token } }.
\* demo: the request asks for a demo credential.
ConnectResponse(token, demo, valid, dbOk) ==
    [demo |-> demo \/ token = "",
     success |-> ~(ConnectValidates(token, demo) /\ ~valid) /\ dbOk,
     message |-> IF ConnectValidates(token, demo) /\ ~valid THEN "Token validation failed"
                 ELSE IF ~dbOk THEN "Failed to save integration"
                 ELSE "connected"]

\* a variant without the early return: a token that failed the validation is stored
ConnectRejectedNever(token, demo, valid) == FALSE

\* if (!validationResult.valid) return { success: false, ... }
ConnectRejected(token, demo, valid) == ConnectValidates(token, demo) /\ ~valid

\* the :provider of POST :provider/connect: the two hosts, and a provider the analysis
\* recommends but connectProvider does not know
ConnectProviders == Providers \cup {"render"}

\* if (provider === 'netlify' || provider === 'vercel')
ConnectSupported(provider) == provider \in {"netlify", "vercel"}

\* a handled connect request: who asked for which provider with which token, and what
\* connectProvider returned; for any other provider than the two hosts it is
\* { success: false, error: 'Unsupported provider' } (611-614)
ConnectEntry(user, provider, token, demo, valid, dbOk) ==
    LET response == ConnectResponse(token, demo, valid, dbOk) IN
    IF ConnectSupported(provider)
      THEN [user |-> user, provider |-> provider, token |-> token,
            demo |-> response.demo, success |-> response.success,
            message |-> response.message]
      ELSE [user |-> user, provider |-> provider, token |-> token,
            demo |-> response.demo, success |-> FALSE,
            message |-> "Unsupported provider"]

\* connectProvider awaits validateToken (a fetch of the provider, its answer is valid)
\* and then providerIntegration.upsert({ where: { userId_provider }, update, create }),
\* its one access to the store: the step is that upsert, which writes the one row of
\* (user, provider) or creates it when there is none. Before it the handler has read
\* and written nothing of the store. For a provider it does not support it returns at
\* once, with no call made.
ConnectProvider(user, provider, token, demo, valid, dbOk) ==
    /\ connects' = Append(connects, ConnectEntry(user, provider, token, demo, valid, dbOk))
    /\ IF ~ConnectSupported(provider) \/ ConnectRejected(token, demo, valid) \/ ~dbOk
         THEN UNCHANGED integrations
         ELSE integrations' =
                [integrations EXCEPT ![<<user, provider>>] =
                    StoredToken(provider, token, demo)]
    /\ UNCHANGED <<callbacks, tenancy, queries, analysis, vault, deployments, trace, runs, timers, rollbacks, cancelRequested,
                   now>>

\* ------------------------------------------------------------------ GitHub login
\* the access tokens GitHub's OAuth hands to githubLogin
GithubTokens == {"gho-first", "gho-second"}

\* encryptedToken: JSON.stringify({ access_token: accessToken }): no demo key
GithubToken(token) == [access_token |-> token]

\* AuthService.githubLogin: the user is found or created (users are not modelled), then
\* providerIntegration.upsert writes the row of (user, 'github'), in update and in
\* create with the token as GitHub gave it; a rejected upsert is thrown to the caller.
GithubLogin(user, token, dbOk) ==
    /\ connects' =
         Append(connects,
                [user |-> user, provider |-> "github", token |-> token, demo |-> FALSE,
                 success |-> dbOk,
                 message |-> IF dbOk THEN "logged_in" ELSE "throw"])
    /\ IF dbOk
         THEN integrations' =
                [integrations EXCEPT ![<<user, "github">>] = GithubToken(token)]
         ELSE UNCHANGED integrations
    /\ UNCHANGED <<callbacks, tenancy, queries, analysis, vault, deployments, trace, runs, timers, rollbacks, cancelRequested,
                   now>>

\* ------------------------------------------------------------------ project, organization
\* deployment.projectId.toLowerCase().replace(/[^a-z0-9-]/g, '-')
Slug(name) ==
    CASE name = "P1" -> "p1"
      [] name = "my app" -> "my-app"
      [] name = "My App" -> "my-app"
      [] OTHER -> name

\* slug: `personal-${deployment.userId}`
PersonalSlug(user) == <<"personal", user>>

\* a project's row is identified by its organization and slug (the unique index
\* projects_organization_id_slug_key); an organization's by its slug
ProjectId(p) == <<p.organization, p.slug>>

\* project.findFirst({ where: { name } }): the project is looked up by name alone
ProjectsNamed(t, name) == {p \in t.projects : p.name = name}

\* organization.findFirst({ where: { members: { some: { userId } } } })
OrganizationsOf(t, user) == {o \in t.organizations : user \in o.members}

\* A call of the store throws inside the handler's outer try: catch (error) { throw error }
Throws(run) == [run EXCEPT !.pc = "done", !.response = "throw", !.dbError = TRUE]

\* The find-or-create of deployments.service.ts 118-162 (the same code at 37-81 and
\* 310-354), one action for each of its awaits. A run's pc names the call the handler
\* has made and is awaiting: an action is the answer to it, with what the handler does
\* until its next await. When that is a write whose arguments hold new Date(), the
\* handler reads the clock as it makes the call (issued); the write is applied with
\* these arguments in a later step, after whatever else happens in between.
\* let project = await project.findFirst({ where: { name } }); if (!project) ...
\* With several projects of the name the store answers with one of them.
FindProject(r) ==
    /\ runs[r].pc = "find_project"
    /\ IF ProjectsNamed(tenancy, runs[r].project) = {}
         THEN runs' = [runs EXCEPT ![r].pc = "find_organization"]
         ELSE \E p \in ProjectsNamed(tenancy, runs[r].project) :
                 runs' = [runs EXCEPT ![r].pc = "create_record",
                                      ![r].projectId = ProjectId(p),
                                      ![r].issued = now]
    /\ UNCHANGED <<callbacks, tenancy, queries, analysis, vault, integrations, deployments, trace, timers, rollbacks,
                   cancelRequested, connects, now>>

\* let organization = await organization.findFirst(...); if (!organization) ...
FindOrganization(r) ==
    /\ runs[r].pc = "find_organization"
    /\ IF OrganizationsOf(tenancy, runs[r].user) = {}
         THEN runs' = [runs EXCEPT ![r].pc = "create_organization"]
         ELSE \E o \in OrganizationsOf(tenancy, runs[r].user) :
                 runs' = [runs EXCEPT ![r].pc = "create_project",
                                      ![r].organization = o.slug]
    /\ UNCHANGED <<callbacks, tenancy, queries, analysis, vault, integrations, deployments, trace, timers, rollbacks,
                   cancelRequested, connects, now>>

\* organization = await organization.create({ data: { name: 'Personal', slug, members } }):
\* the unique index organizations_slug_key rejects a second row of the slug.
CreateOrganization(r, dbOk) ==
    /\ runs[r].pc = "create_organization"
    /\ IF dbOk /\ ~\E o \in tenancy.organizations : o.slug = PersonalSlug(runs[r].user)
         THEN /\ tenancy' =
                   [tenancy EXCEPT !.organizations =
                       @ \cup {[slug |-> PersonalSlug(runs[r].user), name |-> "Personal",
                                members |-> {runs[r].user}]}]
              /\ runs' = [runs EXCEPT ![r].pc = "create_project",
                                      ![r].organization = PersonalSlug(runs[r].user)]
         ELSE /\ runs' = [runs EXCEPT ![r] = Throws(@)]
              /\ UNCHANGED tenancy
    /\ UNCHANGED <<callbacks, queries, analysis, vault, integrations, deployments, trace, timers, rollbacks,
                   cancelRequested, connects, now>>

\* project = await project.create({ data: { name, slug, organizationId } }): the unique
\* index projects_organization_id_slug_key rejects a second row of the pair.
CreateProject(r, dbOk) ==
    /\ runs[r].pc = "create_project"
    /\ LET project == [name |-> runs[r].project, slug |-> Slug(runs[r].project),
                       organization |-> runs[r].organization]
       IN IF dbOk /\ ~\E p \in tenancy.projects : ProjectId(p) = ProjectId(project)
            THEN /\ tenancy' = [tenancy EXCEPT !.projects = @ \cup {project}]
                 /\ runs' = [runs EXCEPT ![r].pc = "create_record",
                                         ![r].projectId = ProjectId(project),
                                         ![r].issued = now]
            ELSE /\ runs' = [runs EXCEPT ![r] = Throws(@)]
                 /\ UNCHANGED tenancy
    /\ UNCHANGED <<callbacks, queries, analysis, vault, integrations, deployments, trace, timers, rollbacks,
                   cancelRequested, connects, now>>

\* ------------------------------------------------------------------ deployToVercel
VercelDemoDelay == 3
NetlifyDemoDelay == 2

\* a variant that creates the row as already deployed
VercelInitialStatusDeployed == "deployed"

\* status: 'deploying' of the create at line 169
VercelInitialStatus == "deploying"

\* if (isRealVercelDeployment) { ... } else { setTimeout(...) }
VercelSimulates(isReal) == ~isReal

\* deployToVercel 24-34: the request arrives and the handler's first call,
\* providerIntegration.findUnique, reads the user's vercel row. What the handler does
\* with the row later (if (!vercelIntegration), JSON.parse at 186) is about this answer.
DeployToVercel(user, project, branch, cfg, validUrl) ==
    /\ LET integ == integrations[<<user, "vercel">>] IN
       runs' = Append(runs,
                  [NewRun(user, "vercel", project, branch, cfg, validUrl) EXCEPT
                      !.pc = "find_project",
                      !.cred = CredentialKind(integ, "vercel"),
                      !.isReal = IsRealToken(integ, "vercel")])
    /\ UNCHANGED <<callbacks, tenancy, queries, analysis, vault, integrations, deployments, trace, timers, rollbacks,
                   cancelRequested, connects, now>>

\* deployment.create of deployToVercel: at 84-101 with status 'requires_setup', after
\* which the handler returns (104-116), or at 165-183 with status 'deploying'. The row's
\* startedAt is the time of the create, its log entry's timestamp the time the handler
\* made the call.
VercelCreateRecord(r, dbOk) ==
    /\ runs[r].pc = "create_record"
    /\ runs[r].provider = "vercel"
    /\ LET d == Len(deployments) + 1 IN
       IF ~dbOk
         THEN /\ runs' = [runs EXCEPT ![r] = Throws(@)]
              /\ UNCHANGED <<deployments, trace>>
       ELSE IF runs[r].cred = "none"
         THEN /\ deployments' =
                   Append(deployments,
                          NewRecord(runs[r].projectId, runs[r].branch, runs[r].cfg, runs[r].user,
                                    "vercel",
                                    "requires_setup",
                                    <<Entry(runs[r].issued, "requires_vercel_connection",
                                            "warning")>>))
              /\ trace' = Append(trace, [origin |-> "deployToVercel",
                                         statuses |-> <<"requires_setup">>])
              /\ runs' = [runs EXCEPT ![r].pc = "done", ![r].dep = d,
                                      ![r].response = "requires_setup"]
         ELSE /\ deployments' =
                   Append(deployments,
                          NewRecord(runs[r].projectId, runs[r].branch, runs[r].cfg, runs[r].user,
                                    "vercel",
                                    VercelInitialStatus,
                                    <<Entry(runs[r].issued, "started_connecting_vercel",
                                            "info")>>))
              /\ trace' = Append(trace, [origin |-> "deployToVercel",
                                         statuses |-> <<VercelInitialStatus>>])
              /\ runs' = [runs EXCEPT ![r].pc = "v_start", ![r].dep = d]
    /\ UNCHANGED <<callbacks, tenancy, queries, analysis, vault, integrations, timers, rollbacks, cancelRequested, connects, now>>

\* deployToVercel 185-204 and 251-279: the create has answered. With a real token the
\* handler calls VercelService.createDeployment, which throws on a repository URL it
\* cannot parse and else asks for the projects; without one it schedules the callback.
VercelStart(r) ==
    /\ runs[r].pc = "v_start"
    /\ IF VercelSimulates(runs[r].isReal)
         THEN /\ timers' = timers \cup
                    {[dep |-> runs[r].dep, due |-> now + VercelDemoDelay,
                      provider |-> "vercel",
                      url |-> [host |-> "demo.vercel.app", site |-> runs[r].project]]}
              /\ runs' = [runs EXCEPT ![r].pc = "done", ![r].response = "demo_deployment"]
         ELSE /\ UNCHANGED timers
              /\ runs' =
                   [runs EXCEPT
                      ![r].attempts =
                          <<[Attempt("vercel_api", runs[r].dep) EXCEPT
                               !.outcome = IF runs[r].validUrl THEN "pending"
                                           ELSE "invalid_url"]>>,
                      ![r].pc = IF runs[r].validUrl THEN "v_list" ELSE "v_catch",
                      ![r].issued = IF runs[r].validUrl THEN @ ELSE now,
                      ![r].calls = IF runs[r].validUrl
                                     THEN <<Call("vercel", "GET /v9/projects")>>
                                     ELSE <<>>]
    /\ UNCHANGED <<callbacks, tenancy, queries, analysis, vault, integrations, deployments, trace, rollbacks, cancelRequested,
                   connects, now>>

\* VercelService.createDeployment: the answer to GET /v9/projects. "found": a 2xx
\* response listing a project of this name; "ok": a 2xx response without one.
VercelListProjects(r, outcome) ==
    /\ runs[r].pc = "v_list"
    /\ runs' =
         [runs EXCEPT ![r] =
            IF outcome = "network"
              THEN [@ EXCEPT !.pc = "v_catch", !.issued = now,
                             !.attempts = SetOutcome(@, "network")]
            ELSE IF outcome = "found"
              THEN [@ EXCEPT !.pc = "v_deploy",
                             !.calls = Append(@, Call("vercel", "POST /v13/deployments"))]
              ELSE [@ EXCEPT !.pc = "v_create",
                             !.calls = Append(@, Call("vercel", "POST /v10/projects"))]]
    /\ UNCHANGED <<callbacks, tenancy, queries, analysis, vault, integrations, deployments, trace, timers, rollbacks,
                   cancelRequested, connects, now>>

\* VercelService.deployExistingProject: the answer to POST /v13/deployments.
VercelDeployExisting(r, outcome) ==
    /\ runs[r].pc = "v_deploy"
    /\ runs' =
         [runs EXCEPT ![r] =
            IF outcome = "ok"
              THEN [@ EXCEPT !.pc = "v_update", !.issued = now,
                             !.attempts = SetOutcome(@, "ok"),
                             !.result.status = "vercel_ready_state",
                             !.result.url = [host |-> "vercel-deployment-url",
                                             site |-> runs[r].project]]
              ELSE [@ EXCEPT !.pc = "v_catch", !.issued = now,
                             !.attempts = SetOutcome(@, outcome)]]
    /\ UNCHANGED <<callbacks, tenancy, queries, analysis, vault, integrations, deployments, trace, timers, rollbacks,
                   cancelRequested, connects, now>>

\* VercelService.createDeployment: the answer to POST /v10/projects. The project is
\* created under name: params.projectName.toLowerCase().replace(/[^a-z0-9-]/g, '-')
\* (72), the expression of Slug, and the provider's answer carries that name as
\* project.name; url: `https://${project.name}.vercel.app` (107-109)
VercelCreateProject(r, outcome) ==
    /\ runs[r].pc = "v_create"
    /\ runs' =
         [runs EXCEPT ![r] =
            IF outcome = "ok"
              THEN [@ EXCEPT !.pc = "v_update", !.issued = now,
                             !.attempts = SetOutcome(@, "ok"),
                             !.result.status = "building",
                             !.result.url =
                                 [host |-> "vercel.app",
                                  site |-> Slug(runs[r].project)]]
              ELSE [@ EXCEPT !.pc = "v_catch", !.issued = now,
                             !.attempts = SetOutcome(@, outcome)]]
    /\ UNCHANGED <<callbacks, tenancy, queries, analysis, vault, integrations, deployments, trace, timers, rollbacks,
                   cancelRequested, connects, now>>

\* logs of the update at 213-230
VercelSuccessLogs(t) ==
    <<Entry(t, "real_vercel_project_created", "success"),
      Entry(t, "live_deployment_url", "success"),
      Entry(t, "dashboard_url", "info")>>

\* deployments.service.ts 206-232: the update the handler made when createDeployment
\* returned is answered. completedAt and the logs' timestamps are the clock as the
\* handler read it then. A rejected update is thrown into the catch of line 234, which
\* makes its own update.
VercelUpdateDeployed(r, dbOk) ==
    /\ runs[r].pc = "v_update"
    /\ IF dbOk
         THEN /\ UpdateRow(runs[r].dep, "deployed", runs[r].result.url, runs[r].issued,
                           VercelSuccessLogs(runs[r].issued))
              /\ runs' = [runs EXCEPT ![r].pc = "done", ![r].response = "deploying"]
         ELSE /\ runs' = [runs EXCEPT ![r].pc = "v_catch", ![r].dbError = TRUE,
                                      ![r].issued = now]
              /\ UNCHANGED <<deployments, trace>>
    /\ UNCHANGED <<callbacks, tenancy, queries, analysis, vault, integrations, timers, rollbacks, cancelRequested, connects, now>>

\* deployments.service.ts 234-250: the update of catch (vercelError) is answered; its
\* log entry's timestamp is the clock as the catch read it. A rejected update here
\* leaves the handler through the outer catch, which rethrows.
VercelUpdateFailed(r, dbOk) ==
    /\ runs[r].pc = "v_catch"
    /\ IF dbOk
         THEN /\ UpdateRow(runs[r].dep, "failed", deployments[runs[r].dep].url,
                           deployments[runs[r].dep].completedAt,
                           <<Entry(runs[r].issued, "vercel_deployment_failed", "error")>>)
              /\ runs' = [runs EXCEPT ![r].pc = "done", ![r].response = "deploying"]
         ELSE /\ runs' = [runs EXCEPT ![r].pc = "done", ![r].response = "throw",
                                      ![r].dbError = TRUE]
              /\ UNCHANGED <<deployments, trace>>
    /\ UNCHANGED <<callbacks, tenancy, queries, analysis, vault, integrations, timers, rollbacks, cancelRequested, connects, now>>

\* The setTimeout callbacks of deployToVercel (253-278) and deployToNetlify (459-485):
\* an unconditional update of the row; a rejected update is logged and dropped.
\* a callback that completes the record without writing a log
DemoCompleteLogsNone(provider, t) == <<>>

DemoCompleteLogs(provider, t) ==
    IF provider = "vercel"
      THEN <<Entry(t, "demo_deployment_completed", "info"),
             Entry(t, "demo_url_generated", "info")>>
      ELSE <<Entry(t, "demo_deployment_completed", "success"),
             Entry(t, "demo_url_generated", "info")>>

\* The timer is due and its callback runs: it has left the timers, reads the clock for
\* the arguments of its update, makes the call and awaits the answer.
TimerFires(t) ==
    /\ t \in timers
    /\ now >= t.due
    /\ timers' = timers \ {t}
    /\ callbacks' = callbacks \cup
                       {[dep |-> t.dep, provider |-> t.provider, url |-> t.url,
                         issued |-> now]}
    /\ UNCHANGED <<tenancy, queries, analysis, vault, integrations, deployments, trace, runs, rollbacks,
                   cancelRequested, connects, now>>

\* The update of a callback is answered: applied with the arguments the callback made
\* it with, or rejected, which the callback's catch logs.
CallbackUpdate(c, dbOk) ==
    /\ c \in callbacks
    /\ callbacks' = callbacks \ {c}
    /\ IF dbOk
         THEN UpdateRow(c.dep, "demo_complete", c.url, c.issued,
                        DemoCompleteLogs(c.provider, c.issued))
         ELSE UNCHANGED <<deployments, trace>>
    /\ UNCHANGED <<tenancy, queries, analysis, vault, integrations, runs, timers, rollbacks,
                   cancelRequested, connects, now>>

\* ------------------------------------------------------------------ deployToNetlify
NetlifyInitialStatus == "demo_deployment"

\* createSiteFromRepo 282, 367, 435:
\* params.siteName.toLowerCase().replace(/[^a-z0-9-]/g, '-'), the expression of Slug;
\* deployToNetlify passes deployment.projectId as siteName (414)
SiteName(project) == Slug(project)

\* site.url || `https://${siteName}.netlify.app` (327, 349, 417): the address of the
\* site created under the name siteName
NetlifyUrl(project) == [host |-> "netlify.app", site |-> SiteName(project)]
\* `https://${siteName}-demo.netlify.app` (438)
NetlifyDemoUrl(project) == [host |-> "demo.netlify.app", site |-> SiteName(project)]

\* connectGitRepository's logs on success: the hook lines, then the workflow instructions
GitConnectedLogs ==
    <<"deploy_hook_created", "hook_url", "workflow_created", "to_enable",
      "step1_create_file", "step2_copy_workflow", "step3_commit_push", "step4_auto_deploy">>

ZipDeployedLogs ==
    <<"zip_downloaded", "deployment_uploaded", "deployment_id", "build_started">>

\* createSiteFromRepo 325-335
GitConnectedResult(project) ==
    [status |-> "deploying", url |-> NetlifyUrl(project), automated |-> TRUE,
     gitConnected |-> TRUE, buildLogs |-> GitConnectedLogs]

\* createSiteFromRepo 347-359, over deployFromGitHubZip's { success, logs }
ManualDeployResult(project, success, logs) ==
    [status |-> IF success THEN "deploying" ELSE "deploy_failed",
     url |-> NetlifyUrl(project), automated |-> TRUE, gitConnected |-> FALSE,
     buildLogs |-> logs]

\* createSiteFromRepo 415-428
DeployHookResult(project) ==
    [status |-> "deploy_hook_created", url |-> NetlifyUrl(project), automated |-> FALSE,
     gitConnected |-> FALSE, buildLogs |-> <<>>]

\* createSiteFromRepo 434-450
FinalFallbackResult(project) ==
    [status |-> "github_access_error", url |-> NetlifyDemoUrl(project),
     automated |-> FALSE, gitConnected |-> FALSE, buildLogs |-> <<>>]

\* deployToNetlify 309-315: the request arrives and the handler's first call,
\* project.findFirst, is answered.
DeployToNetlify(user, project, branch, cfg, validUrl) ==
    /\ IF ProjectsNamed(tenancy, project) = {}
         THEN runs' = Append(runs, [NewRun(user, "netlify", project, branch, cfg,
                                              validUrl) EXCEPT
                                       !.pc = "find_organization"])
         ELSE \E p \in ProjectsNamed(tenancy, project) :
                 runs' = Append(runs, [NewRun(user, "netlify", project, branch, cfg,
                                              validUrl) EXCEPT
                                          !.pc = "create_record",
                                          !.projectId = ProjectId(p),
                                          !.issued = now])
    /\ UNCHANGED <<callbacks, tenancy, queries, analysis, vault, integrations, deployments, trace, timers, rollbacks,
                   cancelRequested, connects, now>>

\* deployment.create of deployToNetlify (357-380): the row is created as a simulated
\* deployment before the credential is looked up.
NetlifyCreateRecord(r, dbOk) ==
    /\ runs[r].pc = "create_record"
    /\ runs[r].provider = "netlify"
    /\ IF dbOk
         THEN /\ deployments' =
                   Append(deployments,
                          NewRecord(runs[r].projectId, runs[r].branch, runs[r].cfg, runs[r].user,
                                    "netlify",
                                    NetlifyInitialStatus,
                                    <<Entry(runs[r].issued, "demo_simulated_deployment",
                                            "info"),
                                      Entry(runs[r].issued,
                                            "real_requires_netlify_account", "warning")>>))
              /\ trace' = Append(trace, [origin |-> "deployToNetlify",
                                         statuses |-> <<NetlifyInitialStatus>>])
              /\ runs' = [runs EXCEPT ![r].pc = "n_integration",
                                      ![r].dep = Len(deployments) + 1]
         ELSE /\ runs' = [runs EXCEPT ![r] = Throws(@)]
              /\ UNCHANGED <<deployments, trace>>
    /\ UNCHANGED <<callbacks, tenancy, queries, analysis, vault, integrations, timers, rollbacks, cancelRequested, connects, now>>

\* deployToNetlify 383-417: providerIntegration.findUnique reads the user's netlify row
\* as it is now; without a real token the call is made with 'demo-token'. Then
\* createSiteFromRepo is called, which throws on a repository URL it cannot parse and
\* else asks GitHub for the default branch.
NetlifyFindIntegration(r) ==
    /\ runs[r].pc = "n_integration"
    /\ LET integ == integrations[<<runs[r].user, "netlify">>] IN
       runs' =
         [runs EXCEPT
            ![r].cred = CredentialKind(integ, "netlify"),
            ![r].isReal = IsRealToken(integ, "netlify"),
            ![r].pc = IF runs[r].validUrl THEN "n_branch" ELSE "n_catch",
            ![r].issued = IF runs[r].validUrl THEN @ ELSE now,
            ![r].calls = IF runs[r].validUrl THEN <<Call("github", "GET /repos")>>
                         ELSE <<>>]
    /\ UNCHANGED <<callbacks, tenancy, queries, analysis, vault, integrations, deployments, trace, timers, rollbacks,
                   cancelRequested, connects, now>>

\* getRepositoryDefaultBranch: every answer yields a branch name; then the first
\* strategy starts with POST /sites.
NetlifyDefaultBranch(r, outcome) ==
    /\ runs[r].pc = "n_branch"
    /\ runs' =
         [runs EXCEPT ![r] =
            [@ EXCEPT !.pc = "n_site",
                      !.attempts = Append(@, Attempt("git_link", runs[r].dep)),
                      !.calls = Append(@, Call("netlify", "POST /sites"))]]
    /\ UNCHANGED <<callbacks, tenancy, queries, analysis, vault, integrations, deployments, trace, timers, rollbacks,
                   cancelRequested, connects, now>>

\* createSiteFromRepo 298-322: a failed site creation is thrown into the catch of
\* line 362, which starts the deploy-hook strategy with a second POST /sites.
NetlifyCreateSite(r, outcome) ==
    /\ runs[r].pc = "n_site"
    /\ runs' =
         [runs EXCEPT ![r] =
            IF outcome = "ok"
              THEN [@ EXCEPT !.pc = "n_git",
                             !.calls = Append(@, Call("netlify", "POST /build_hooks"))]
              ELSE [@ EXCEPT !.pc = "n_fb_site",
                             !.attempts =
                                 Append(SetOutcome(@, outcome),
                                        Attempt("deploy_hook", runs[r].dep)),
                             !.calls = Append(@, Call("netlify", "POST /sites"))]]
    /\ UNCHANGED <<callbacks, tenancy, queries, analysis, vault, integrations, deployments, trace, timers, rollbacks,
                   cancelRequested, connects, now>>

\* a variant where the simulated run writes its result to the row as well
NetlifyUpdatesRowAlways(isReal) == TRUE

\* if (isRealDeployment) { update } else { setTimeout }
NetlifyUpdatesRow(isReal) == isReal

\* a variant without the else: the demo completion is scheduled for real runs too
NetlifySchedulesDemoAlways(isReal) == TRUE

NetlifySchedulesDemo(isReal) == ~isReal

\* setTimeout(async () => { ... }, 2000) of deployToNetlify, set now
NetlifyTimer(run) ==
    [dep |-> run.dep, due |-> now + NetlifyDemoDelay, provider |-> "netlify",
     url |-> run.result.url]

\* An answer to a call of createSiteFromRepo: run is the run after the adapter has
\* taken it, with pc "n_result" when the adapter returns its result to the handler
\* (deployToNetlify 419-486). In the same turn the handler, with a real token, makes the
\* update, reading the clock for its arguments, and awaits the answer; without one it
\* schedules the callback and goes on to the return of line 507.
NetlifyResumes(r, run) ==
    /\ runs' =
         [runs EXCEPT ![r] =
            IF run.pc # "n_result" THEN run
            ELSE IF NetlifyUpdatesRow(run.isReal)
              THEN [run EXCEPT !.pc = "n_apply", !.issued = now]
              ELSE [run EXCEPT !.pc = "done",
                               !.response = IF run.isReal THEN "deploying"
                                            ELSE "demo_deployment"]]
    /\ timers' =
         IF /\ run.pc = "n_result"
            /\ ~NetlifyUpdatesRow(run.isReal)
            /\ NetlifySchedulesDemo(run.isReal)
           THEN timers \cup {NetlifyTimer(run)}
           ELSE timers

\* connectGitRepository: success iff the build hook is created; a failure falls back
\* to deployFromGitHubZip, which first fetches the zipball from GitHub.
NetlifyConnectGit(r, outcome) ==
    /\ runs[r].pc = "n_git"
    /\ NetlifyResumes(r,
            IF outcome = "ok"
              THEN [runs[r] EXCEPT !.pc = "n_result", !.attempts = SetOutcome(@, "ok"),
                             !.result = GitConnectedResult(runs[r].project)]
              ELSE [runs[r] EXCEPT !.pc = "n_zip_fetch",
                             !.attempts =
                                 Append(SetOutcome(@, outcome),
                                        Attempt("zip_upload", runs[r].dep)),
                             !.calls = Append(@, Call("github", "GET /zipball"))])
    /\ UNCHANGED <<callbacks, tenancy, queries, analysis, vault, integrations, deployments, trace, rollbacks,
                   cancelRequested, connects, now>>

\* deployFromGitHubZip 208-217: a non-2xx or rejected zip fetch ends in its catch.
NetlifyZipFetch(r, outcome) ==
    /\ runs[r].pc = "n_zip_fetch"
    /\ NetlifyResumes(r,
            IF outcome = "ok"
              THEN [runs[r] EXCEPT !.pc = "n_zip_deploy",
                             !.calls = Append(@, Call("netlify", "POST /deploys"))]
              ELSE [runs[r] EXCEPT !.pc = "n_result", !.attempts = SetOutcome(@, outcome),
                             !.result = ManualDeployResult(runs[r].project, FALSE,
                                                           <<"zip_error">>)])
    /\ UNCHANGED <<callbacks, tenancy, queries, analysis, vault, integrations, deployments, trace, rollbacks,
                   cancelRequested, connects, now>>

\* deployFromGitHubZip 220-259
NetlifyZipDeploy(r, outcome) ==
    /\ runs[r].pc = "n_zip_deploy"
    /\ NetlifyResumes(r,
            [runs[r] EXCEPT !.pc = "n_result", !.attempts = SetOutcome(@, outcome),
                      !.result =
                          IF outcome = "ok"
                            THEN ManualDeployResult(runs[r].project, TRUE, ZipDeployedLogs)
                          ELSE IF outcome = "network"
                            THEN ManualDeployResult(runs[r].project, FALSE, <<"zip_error">>)
                            ELSE ManualDeployResult(runs[r].project, FALSE,
                                                    <<"deployment_failed">>)])
    /\ UNCHANGED <<callbacks, tenancy, queries, analysis, vault, integrations, deployments, trace, rollbacks,
                   cancelRequested, connects, now>>

\* createSiteFromRepo 382-391: the deploy-hook strategy's POST /sites.
NetlifyFallbackSite(r, outcome) ==
    /\ runs[r].pc = "n_fb_site"
    /\ NetlifyResumes(r,
            IF outcome = "ok"
              THEN [runs[r] EXCEPT !.pc = "n_fb_hook",
                             !.calls = Append(@, Call("netlify", "POST /build_hooks"))]
              ELSE [runs[r] EXCEPT !.pc = "n_result", !.attempts = SetOutcome(@, outcome),
                             !.result = FinalFallbackResult(runs[r].project)])
    /\ UNCHANGED <<callbacks, tenancy, queries, analysis, vault, integrations, deployments, trace, rollbacks,
                   cancelRequested, connects, now>>

\* createSiteFromRepo 400-432: a non-2xx hook answer leaves the hook url null; a
\* rejected fetch is caught at line 430 and the final fallback is returned.
NetlifyFallbackHook(r, outcome) ==
    /\ runs[r].pc = "n_fb_hook"
    /\ NetlifyResumes(r,
            IF outcome = "network"
              THEN [runs[r] EXCEPT !.pc = "n_result", !.attempts = SetOutcome(@, "network"),
                             !.result = FinalFallbackResult(runs[r].project)]
              ELSE [runs[r] EXCEPT !.pc = "n_result", !.attempts = SetOutcome(@, "ok"),
                             !.result = DeployHookResult(runs[r].project)])
    /\ UNCHANGED <<callbacks, tenancy, queries, analysis, vault, integrations, deployments, trace, rollbacks,
                   cancelRequested, connects, now>>

\* status: netlifyResult.status === 'ready_for_setup' ? 'setup_required' : 'deployed'
NetlifyRecordStatus(result) ==
    IF result.status = "ready_for_setup" THEN "setup_required" ELSE "deployed"

\* a variant that stamps the adapter's lines with the time the clock started at
BuildLogEntriesStale(logs, t) ==
    [i \in 1..Len(logs) |-> [timestamp |-> 0, message |-> logs[i], level |-> "info"]]

RECURSIVE BuildLogEntries(_, _)
BuildLogEntries(logs, t) ==
    IF logs = <<>> THEN <<>>
    ELSE <<[timestamp |-> t, message |-> Head(logs), level |-> "info"]>>
           \o BuildLogEntries(Tail(logs), t)

\* deployments.service.ts 429-454
NetlifySuccessLogs(result, t) ==
    <<Entry(t, "netlify_site_created", "success"),
      Entry(t, "site_url", "info"),
      Entry(t,
            IF result.automated
              THEN (IF result.gitConnected THEN "git_connected_continuous"
                    ELSE "manual_deployment_git_connection_failed")
              ELSE "connect_github_in_dashboard",
            IF result.gitConnected THEN "success" ELSE "warning")>>
    \o BuildLogEntries(result.buildLogs, t)

\* deployments.service.ts 420-455: the update of a real run is answered; completedAt
\* and the logs' timestamps are the clock as the handler read it when createSiteFromRepo
\* returned. A rejected update is thrown into the catch of line 488, which makes its
\* own update. The setTimeout is in the else of this if: NetlifySchedulesDemo is false
\* of every run that updates the row.
NetlifyApplyResult(r, dbOk) ==
    /\ runs[r].pc = "n_apply"
    /\ IF dbOk
         THEN UpdateRow(runs[r].dep, NetlifyRecordStatus(runs[r].result),
                        runs[r].result.url, runs[r].issued,
                        NetlifySuccessLogs(runs[r].result, runs[r].issued))
         ELSE UNCHANGED <<deployments, trace>>
    /\ IF dbOk /\ NetlifySchedulesDemo(runs[r].isReal)
         THEN timers' = timers \cup {NetlifyTimer(runs[r])}
         ELSE UNCHANGED timers
    /\ runs' =
         IF dbOk
           THEN [runs EXCEPT ![r].pc = "done",
                             ![r].response = IF runs[r].isReal THEN "deploying"
                                             ELSE "demo_deployment"]
           ELSE [runs EXCEPT ![r].pc = "n_catch", ![r].dbError = TRUE,
                             ![r].issued = now]
    /\ UNCHANGED <<callbacks, tenancy, queries, analysis, vault, integrations, rollbacks, cancelRequested, connects, now>>

\* deployments.service.ts 488-515: the update of catch (error) is answered, its log
\* entry's timestamp the clock as the catch read it; then the return. A rejected
\* update leaves through the outer catch, which rethrows.
NetlifyUpdateFailed(r, dbOk) ==
    /\ runs[r].pc = "n_catch"
    /\ IF dbOk
         THEN /\ UpdateRow(runs[r].dep, "failed", deployments[runs[r].dep].url,
                           deployments[runs[r].dep].completedAt,
                           <<Entry(runs[r].issued, "deployment_failed", "error")>>)
              /\ runs' = [runs EXCEPT ![r].pc = "done",
                                      ![r].response =
                                          IF runs[r].isReal THEN "deploying"
                                          ELSE "demo_deployment"]
         ELSE /\ runs' = [runs EXCEPT ![r].pc = "done", ![r].response = "throw",
                                      ![r].dbError = TRUE]
              /\ UNCHANGED <<deployments, trace>>
    /\ UNCHANGED <<callbacks, tenancy, queries, analysis, vault, integrations, timers, rollbacks, cancelRequested, connects, now>>

\* ------------------------------------------------------------------ cancel
\* POST /api/v1/deployments/:id/cancel is listed by the API document; the controller
\* has no such route and the service never reads a cancel flag: the request is noted
\* here and changes no row.
CancelRequest(d) ==
    /\ Cardinality(cancelRequested) < MaxCancels
    /\ d \in 1..Len(deployments)
    /\ deployments[d].status \in InProgressStatuses
    /\ d \notin cancelRequested
    /\ cancelRequested' = cancelRequested \cup {d}
    /\ UNCHANGED <<callbacks, tenancy, queries, analysis, vault, integrations, deployments, trace, runs, timers, rollbacks,
                   connects, now>>

\* ------------------------------------------------------------------ rollback
\* findFirst({ where: { projectId, status: 'deployed', startedAt: { lt } },
\*             orderBy: { startedAt: 'desc' } }): a row with the greatest startedAt
\* among the matching ones.
\* a variant with startedAt: { lte }: D itself is a candidate
RollbackCandidatesNotStrict(d) ==
    {t \in 1..Len(deployments) :
        /\ deployments[t].projectId = deployments[d].projectId
        /\ deployments[t].status = "deployed"
        /\ deployments[t].startedAt <= deployments[d].startedAt}

RollbackCandidates(d) ==
    {t \in 1..Len(deployments) :
        /\ deployments[t].projectId = deployments[d].projectId
        /\ deployments[t].status = "deployed"
        /\ deployments[t].startedAt < deployments[d].startedAt}

\* a variant without the orderBy: any earlier deployed record of the project
RollbackTargetsUnordered(d) == RollbackCandidates(d)

RollbackTargets(d) ==
    {t \in RollbackCandidates(d) :
        \A t2 \in RollbackCandidates(d) :
            deployments[t2].startedAt <= deployments[t].startedAt}

\* a variant that redeploys through the provider's adapter
RollbackCallsRedeploy(d) == <<Call(deployments[d].provider, "POST deploy")>>

\* The external calls of rollbackDeployment: it awaits two findFirst and one create of
\* prisma, and no method of VercelService or NetlifyService.
RollbackCalls(d) == <<>>

\* a finder that looks at the id alone
FindAnyDeployment(d, user) == d \in 1..Len(deployments)

\* deployment.findFirst({ where: { id: deploymentId, createdBy: userId } }), the first
\* statement of getDeploymentStatus and of rollbackDeployment: is there such a row
FindOwnDeployment(d, user) ==
    d \in 1..Len(deployments) /\ deployments[d].createdBy = user

\* what the second findFirst hands to the handler of the row it found
NoCopy == [branch |-> "none", commitSha |-> "none", configuration |-> "none", url |-> NoUrl]

CopyOf(row) ==
    [branch |-> row.branch, commitSha |-> row.commitSha,
     configuration |-> row.configuration, url |-> row.url]

\* a rollback request: the id and the caller, the call of the store its handler makes
\* next, what it returned, the row it found to copy and what it read of it, the row it
\* created, and the status of every row at the time it looked for the row to copy
NewRollback(d, user) ==
    [dep |-> d, user |-> user, pc |-> "find_previous", result |-> "pending",
     target |-> 0, copied |-> NoCopy, created |-> 0, calls |-> <<>>, seen |-> <<>>,
     issued |-> NoTime]

\* rollbackDeployment 660-671: the request arrives with an id, of a row or of none, and
\* the first findFirst is answered; without a row of the caller the handler throws.
RollbackDeployment(d, user) ==
    /\ rollbacks' =
         Append(rollbacks,
            IF FindOwnDeployment(d, user)
              THEN NewRollback(d, user)
              ELSE [NewRollback(d, user) EXCEPT
                      !.pc = "returned", !.result = "Deployment not found"])
    /\ UNCHANGED <<callbacks, tenancy, queries, analysis, vault, integrations, deployments, trace, runs, timers,
                   cancelRequested, connects, now>>

\* rollbackDeployment 673-685: the second findFirst is answered with the rows as they
\* are now; without a row to copy the handler throws.
RollbackFindPrevious(k) ==
    /\ rollbacks[k].pc = "find_previous"
    /\ LET d == rollbacks[k].dep
           seen == [t \in 1..Len(deployments) |-> deployments[t].status]
       IN IF RollbackCandidates(d) = {}
            THEN rollbacks' =
                   [rollbacks EXCEPT
                      ![k].pc = "returned", ![k].seen = seen,
                      ![k].result = "No previous deployment found for rollback"]
            ELSE \E t \in RollbackTargets(d) :
                   rollbacks' =
                     [rollbacks EXCEPT
                        ![k].pc = "create", ![k].seen = seen, ![k].target = t,
                        ![k].copied = CopyOf(deployments[t]), ![k].issued = now]
    /\ UNCHANGED <<callbacks, tenancy, queries, analysis, vault, integrations, deployments, trace, runs, timers,
                   cancelRequested, connects, now>>

\* rollbackDeployment 687-703: deployment.create with what the two findFirst returned;
\* the row's startedAt is the time of the create, its log entry's timestamp the time
\* the handler made the call. A rejected create is thrown to the caller.
RollbackCreate(k, dbOk) ==
    /\ rollbacks[k].pc = "create"
    /\ LET d == rollbacks[k].dep IN
       IF dbOk
         THEN /\ deployments' =
                   Append(deployments,
                      [projectId |-> deployments[d].projectId,
                       branch |-> rollbacks[k].copied.branch,
                       commitSha |-> rollbacks[k].copied.commitSha,
                       status |-> "deployed",
                       provider |-> deployments[d].provider,
                       url |-> rollbacks[k].copied.url,
                       configuration |-> rollbacks[k].copied.configuration,
                       createdBy |-> rollbacks[k].user,
                       logs |-> <<Entry(rollbacks[k].issued,
                                        "rolled_back_to_deployment", "info")>>,
                       startedAt |-> now, completedAt |-> NoTime])
              /\ trace' = Append(trace, [origin |-> "rollbackDeployment",
                                         statuses |-> <<"deployed">>])
              /\ rollbacks' =
                   [rollbacks EXCEPT
                      ![k].pc = "returned", ![k].result = "ok",
                      ![k].created = Len(deployments) + 1,
                      ![k].calls = RollbackCalls(d)]
         ELSE /\ rollbacks' =
                   [rollbacks EXCEPT
                      ![k].pc = "returned", ![k].result = "throw",
                      ![k].calls = RollbackCalls(d)]
              /\ UNCHANGED <<deployments, trace>>
    /\ UNCHANGED <<callbacks, tenancy, queries, analysis, vault, integrations, runs, timers, cancelRequested, connects, now>>

\* ------------------------------------------------------------------ status query
\* getDeploymentStatus: the row, or Error('Deployment not found'); it writes nothing.
GetDeploymentStatus(d, user) ==
    /\ queries' =
         Append(queries,
            IF FindOwnDeployment(d, user)
              THEN [dep |-> d, user |-> user, result |-> "ok",
                    status |-> deployments[d].status]
              ELSE [dep |-> d, user |-> user, result |-> "Deployment not found",
                    status |-> "none"])
    /\ UNCHANGED <<callbacks, tenancy, analysis, vault, integrations, deployments, trace, runs, timers,
                   rollbacks, cancelRequested, connects, now>>

\* ------------------------------------------------------------------ return
\* The handler returns (or rethrows): the response is sent and the handler's locals
\* (token, adapter result, what it tried) are gone.
Return(r) ==
    /\ runs[r].pc = "done"
    /\ runs' =
         [runs EXCEPT ![r] =
            [NewRun(runs[r].user, runs[r].provider, runs[r].project, runs[r].branch,
                    runs[r].cfg, runs[r].validUrl) EXCEPT
               !.pc = "returned", !.dep = runs[r].dep, !.response = runs[r].response]]
    /\ UNCHANGED <<callbacks, tenancy, queries, analysis, vault, integrations, deployments, trace, timers, rollbacks,
                   cancelRequested, connects, now>>

\* ------------------------------------------------------------------ next
\* The steps of the running handlers: a call of the store is answered (a write is
\* applied or rejected, Db), a provider answers (one of Outs), the handler returns.
LookupSteps(Db) ==
    \/ \E r \in 1..Len(runs) : FindProject(r)
    \/ \E r \in 1..Len(runs) : FindOrganization(r)
    \/ \E r \in 1..Len(runs), dbOk \in Db : CreateOrganization(r, dbOk)
    \/ \E r \in 1..Len(runs), dbOk \in Db : CreateProject(r, dbOk)
    \/ \E r \in 1..Len(runs) : Return(r)

VercelSteps(Outs, Db) ==
    \/ \E r \in 1..Len(runs), dbOk \in Db : VercelCreateRecord(r, dbOk)
    \/ \E r \in 1..Len(runs) : VercelStart(r)
    \/ \E r \in 1..Len(runs), o \in Outs \cup {"found"} : VercelListProjects(r, o)
    \/ \E r \in 1..Len(runs), o \in Outs : VercelDeployExisting(r, o)
    \/ \E r \in 1..Len(runs), o \in Outs : VercelCreateProject(r, o)
    \/ \E r \in 1..Len(runs), dbOk \in Db : VercelUpdateDeployed(r, dbOk)

\* the catch of deployToVercel, entered when createDeployment threw
VercelCatchSteps(Db) ==
    \E r \in 1..Len(runs), dbOk \in Db : VercelUpdateFailed(r, dbOk)

\* the steps of deployToNetlify on the way of its first strategy
NetlifySteps(Outs, Db) ==
    \/ \E r \in 1..Len(runs), dbOk \in Db : NetlifyCreateRecord(r, dbOk)
    \/ \E r \in 1..Len(runs) : NetlifyFindIntegration(r)
    \/ \E r \in 1..Len(runs), o \in Outs : NetlifyDefaultBranch(r, o)
    \/ \E r \in 1..Len(runs), o \in Outs : NetlifyCreateSite(r, o)
    \/ \E r \in 1..Len(runs), o \in Outs : NetlifyConnectGit(r, o)
    \/ \E r \in 1..Len(runs), dbOk \in Db : NetlifyApplyResult(r, dbOk)
    \/ \E r \in 1..Len(runs), dbOk \in Db : NetlifyUpdateFailed(r, dbOk)

\* the steps of the strategies createSiteFromRepo falls back to after a call that failed
NetlifyFallbackSteps(Outs) ==
    \/ \E r \in 1..Len(runs), o \in Outs : NetlifyZipFetch(r, o)
    \/ \E r \in 1..Len(runs), o \in Outs : NetlifyZipDeploy(r, o)
    \/ \E r \in 1..Len(runs), o \in Outs : NetlifyFallbackSite(r, o)
    \/ \E r \in 1..Len(runs), o \in Outs : NetlifyFallbackHook(r, o)

RunSteps(Outs, Db) ==
    \/ LookupSteps(Db)
    \/ VercelSteps(Outs, Db)
    \/ VercelCatchSteps(Db)
    \/ NetlifySteps(Outs, Db)
    \/ NetlifyFallbackSteps(Outs)

TimerSteps(Db) ==
    \/ TimerDue
    \/ \E t \in timers : TimerFires(t)
    \/ \E c \in callbacks, dbOk \in Db : CallbackUpdate(c, dbOk)

RollbackSteps(Db) ==
    \/ \E k \in 1..Len(rollbacks) : RollbackFindPrevious(k)
    \/ \E k \in 1..Len(rollbacks), dbOk \in Db : RollbackCreate(k, dbOk)

\* connectionData.token is absent ("") or a token of the provider
Connect ==
    /\ Len(connects) < MaxConnects
    /\ \E u \in Requesters, p \in ConnectProviders, demo \in BOOLEAN, valid \in BOOLEAN :
          \E tok \in {"", "real-token"}, dbOk \in BOOLEAN :
              ConnectProvider(u, p, tok, demo, valid, dbOk)

\* DeploymentsController.createDeployment: branch: body.branch || 'main' (29), where
\* "" is a body that names no branch; then switch (provider)
CreateDeployment(Names, Branches) ==
    \E u \in Requesters, pr \in Names, b \in Branches, cfg \in BuildSettings,
       ok \in BOOLEAN :
       LET branch == IF b = "" THEN "main" ELSE b
       IN \/ DeployToVercel(u, pr, branch, cfg, ok)
          \/ DeployToNetlify(u, pr, branch, cfg, ok)

\* requests whose body names no branch
DeployRequest == Len(runs) < MaxRuns /\ CreateDeployment(ProjectNames, {""})

\* DeploymentsController.rollbackDeployment: the id of a row, or an id no row has
PostRollback ==
    \E d \in 1..(Len(deployments) + 1), u \in Users : RollbackDeployment(d, u)

RollbackRequest == Len(rollbacks) < MaxRollbacks /\ PostRollback

\* One deployment request, for a project whose name is its slug or is not ("My App"),
\* of the default branch or of a branch the body names, with every answer of the providers and of the store. Connect
\* and cancel requests arrive at any moment, also while the handler is between two
\* awaits; time and timers interleave freely.
MaxRequests == 1

Next ==
    \/ Tick
    \/ RunSteps(HttpOutcomes, BOOLEAN)
    \/ TimerSteps(BOOLEAN)
    \/ Connect
    \/ Len(runs) < MaxRequests /\ CreateDeployment(ProjectNames \cup {"My App"}, {"", "dev"})
    \/ \E d \in 1..Len(deployments) : CancelRequest(d)

Spec == Init /\ [][Next]_vars

\* a token is connected, for one of the hosts, as a real or as a demo credential, and
\* the provider and the store accept it
ConnectAccepted ==
    /\ Len(connects) < MaxConnects
    /\ \E u \in Requesters, p \in Providers, tok \in {"", "real-token"} :
          ConnectProvider(u, p, tok, FALSE, TRUE, TRUE)

\* Two deployment requests that arrive at any moment, also while the handler of the
\* other is between two awaits, and a connect request at any moment. Providers answer
\* 2xx or non-2xx; writes are applied.
NextConcurrent ==
    \/ RunSteps({"ok", "unavailable"}, {TRUE})
    \/ TimerSteps({TRUE})
    \/ ConnectAccepted
    \/ DeployRequest

SpecConcurrent == Init /\ [][NextConcurrent]_vars

\* The life of the records: two deployment requests, a connect request with a real
\* token and a rollback request, each at any moment, while time passes. A deployment
\* to Netlify without a token is simulated and schedules its callback. Providers answer
\* 2xx, so that only the first strategy runs; writes are applied.
NextLifecycle ==
    \/ Tick
    \/ LookupSteps({TRUE})
    \/ VercelSteps({"ok"}, {TRUE})
    \/ VercelCatchSteps({TRUE})
    \/ NetlifySteps({"ok"}, {TRUE})
    \/ TimerSteps({TRUE})
    \/ RollbackSteps({TRUE})
    \/ /\ Len(connects) < MaxConnects
       /\ \E u \in Requesters, p \in Providers :
             ConnectProvider(u, p, "real-token", FALSE, TRUE, TRUE)
    \/ DeployRequest
    \/ RollbackRequest

SpecLifecycle == Init /\ [][NextLifecycle]_vars

\* a real token is connected for Vercel: with it, or with no credential, no deployment
\* is simulated and no callback is scheduled
ConnectVercel(Who) ==
    /\ Len(connects) < MaxConnects
    /\ \E u \in Who : ConnectProvider(u, "vercel", "real-token", FALSE, TRUE, TRUE)

\* deployments to Vercel, of the default branch of repositories with a well-formed URL,
\* by the users Who
VercelRequest(Who, Max) ==
    /\ Len(runs) < Max
    /\ \E u \in Who, pr \in ProjectNames, cfg \in BuildSettings :
          DeployToVercel(u, pr, "main", cfg, TRUE)

\* Rollbacks over a longer history: two deployments to Vercel and two rollbacks at up
\* to three different times; every request arrives at any moment. Vercel answers 2xx;
\* the store applies or rejects the rollback's create.
NextRollback ==
    \/ now < MaxRollbackClock /\ ClockAdvances
    \/ LookupSteps({TRUE})
    \/ VercelSteps({"ok"}, {TRUE})
    \/ RollbackSteps(BOOLEAN)
    \/ ConnectVercel(Requesters)
    \/ VercelRequest(Requesters, MaxRuns)
    \/ /\ Len(rollbacks) < MaxRollbackRequests
       /\ \E d \in 1..(Len(deployments) + 1), u \in Requesters : RollbackDeployment(d, u)

SpecRollback == Init /\ [][NextRollback]_vars

\* Two users on one store: one of them connects a real token, both deploy to Vercel and
\* roll back, each request at any moment, while time passes.
MaxSharedConnects == 1
MaxSharedClock == 1

NextShared ==
    \/ now < MaxSharedClock /\ ClockAdvances
    \/ LookupSteps({TRUE})
    \/ VercelSteps({"ok"}, {TRUE})
    \/ RollbackSteps({TRUE})
    \/ Len(connects) < MaxSharedConnects /\ ConnectVercel(Users)
    \/ VercelRequest(Users, MaxRuns)
    \/ RollbackRequest

SpecShared == Init /\ [][NextShared]_vars

\* The requests that name a deployment id, asked by its owner and by another user, with
\* the id of a row and with an id no row has: status queries and rollbacks over the
\* deployments of one user, each request at any moment.
MaxQueries == 1

StatusQuery ==
    /\ Len(queries) < MaxQueries
    /\ \E d \in 1..(Len(deployments) + 1), u \in Users : GetDeploymentStatus(d, u)

NextOwner ==
    \/ Tick
    \/ LookupSteps({TRUE})
    \/ VercelSteps({"ok"}, {TRUE})
    \/ RollbackSteps({TRUE})
    \/ ConnectVercel(Requesters)
    \/ VercelRequest(Requesters, MaxRuns)
    \/ RollbackRequest
    \/ StatusQuery

SpecOwner == Init /\ [][NextOwner]_vars

\* Repeated rollbacks over a store that two earlier requests have written: the
\* requester has connected a real Vercel token and has deployed one project twice, the
\* two requests arrived together and both records were created at the same clock
\* reading and are deployed. A third deployment and up to two rollbacks by the
\* requester follow, each request at any moment, while time passes.
MaxRepeatRuns == 3
MaxRepeatRollbacks == 2

\* the row of a deployment to Vercel that succeeded at the present time
DeployedToVercel(user, project, cfg, url) ==
    [NewRecord(<<PersonalSlug(user), Slug(project)>>, "main", cfg, user, "vercel",
               "deployed",
               VercelSuccessLogs(now)) EXCEPT !.url = url, !.completedAt = now]

InitRepeat ==
    /\ now = 0
    /\ integrations =
         [k \in Users \X IntegrationProviders |->
            IF k = <<"u1", "vercel">> THEN StoredToken("vercel", "real-token", FALSE)
            ELSE NoIntegration]
    /\ connects = <<ConnectEntry("u1", "vercel", "real-token", FALSE, TRUE, TRUE)>>
    /\ tenancy =
         [organizations |-> {[slug |-> PersonalSlug("u1"), name |-> "Personal",
                              members |-> {"u1"}]},
          projects |-> {[name |-> "p1", slug |-> Slug("p1"),
                         organization |-> PersonalSlug("u1")]}]
    /\ deployments =
         <<DeployedToVercel("u1", "p1", "cfgA", [host |-> "vercel.app", site |-> "p1"]),
           DeployedToVercel("u1", "p1", "cfgA",
                            [host |-> "vercel-deployment-url", site |-> "p1"])>>
    /\ trace = [d \in 1..2 |-> [origin |-> "deployToVercel",
                                statuses |-> <<VercelInitialStatus, "deployed">>]]
    /\ runs = [r \in 1..2 |->
                 [NewRun("u1", "vercel", "p1", "main", "cfgA", TRUE) EXCEPT
                    !.pc = "returned", !.dep = r, !.response = "deploying"]]
    /\ timers = {}
    /\ callbacks = {}
    /\ rollbacks = <<>>
    /\ cancelRequested = {}
    /\ vault = NoRotation
    /\ analysis = NoAnalysis
    /\ queries = <<>>

NextRepeat ==
    \/ Tick
    \/ \E r \in 1..Len(runs) : FindProject(r)
    \/ \E r \in 1..Len(runs) : Return(r)
    \/ VercelSteps({"ok"}, {TRUE})
    \/ RollbackSteps({TRUE})
    \/ VercelRequest(Requesters, MaxRepeatRuns)
    \/ /\ Len(rollbacks) < MaxRepeatRollbacks
       /\ \E d \in 1..Len(deployments), u \in Requesters : RollbackDeployment(d, u)

SpecRepeat == InitRepeat /\ [][NextRepeat]_vars

\* Connect requests and GitHub logins only: up to three, of both users, for both hosts
\* and for a provider that is not supported,
\* with and without a token, with both answers of the provider and of the store.
MaxConnectRequests == 3

NextConnect ==
    /\ Len(connects) < MaxConnectRequests
    /\ \/ \E u \in Users, p \in ConnectProviders, demo \in BOOLEAN, valid \in BOOLEAN :
             \E tok \in {"", "real-token"}, dbOk \in BOOLEAN :
                 ConnectProvider(u, p, tok, demo, valid, dbOk)
       \/ \E u \in Users, tok \in GithubTokens, dbOk \in BOOLEAN : GithubLogin(u, tok, dbOk)

SpecConnect == Init /\ [][NextConnect]_vars

\* ------------------------------------------------------------------ TokenVault
MaxOpened == 2

\* process.env.MASTER_ENCRYPTION_KEY, the values crypto.randomBytes(32) returns for the
\* salt, and the tokens handed to the vault
MasterKey == "master-key"
Salts == {"s1", "s2"}
Secrets == {"real-token", "refreshed-token"}
DecryptFailed == "decrypt_failed"

\* crypto.pbkdf2Sync(master, salt, 100000, 32, 'sha256')
DeriveKey(master, salt) == [kdf |-> "pbkdf2-sha256", master |-> master, salt |-> salt]

\* a cipher that is given no associated data
CipherAADNone(userId) == ""

\* cipher.setAAD(Buffer.from(userId)) / decipher.setAAD(Buffer.from(userId))
CipherAAD(userId) == userId

\* AES-GCM: the ciphertext is opened by the key that made it; the tag binds the key,
\* the ciphertext and the associated data.
CipherText(key, token) == [key |-> key, plain |-> token]
AuthTag(key, data, aad) == [key |-> key, data |-> data, aad |-> aad]

\* encryptToken(token, userId), salt being the random salt it draws. The random iv it
\* also returns is not given to the cipher and not read by decryptToken.
EncryptToken(token, userId, salt) ==
    LET key == DeriveKey(MasterKey, salt)
    IN [encryptedData |-> CipherText(key, token),
        salt |-> salt,
        authTag |-> AuthTag(key, CipherText(key, token), CipherAAD(userId)),
        algorithm |-> "aes-256-gcm"]

\* decryptToken(encryptedToken, userId): the token, or DecryptFailed when it throws
\* (a column that is no envelope has no salt; decipher.final() rejects a wrong tag)
DecryptToken(column, userId) ==
    IF ~("encryptedData" \in DOMAIN column)
      THEN DecryptFailed
      ELSE LET key == DeriveKey(MasterKey, column.salt)
           IN IF column.authTag = AuthTag(key, column.encryptedData, CipherAAD(userId))
                   /\ column.encryptedData.key = key
                THEN column.encryptedData.plain
                ELSE DecryptFailed

\* encryptToken then decryptToken, applied to a token, its owner and a reader
OpenEnvelope(secret, owner, salt, reader) ==
    /\ Len(vault.opened) < MaxOpened
    /\ vault' = [vault EXCEPT !.opened =
                    Append(@, [secret |-> secret, owner |-> owner, reader |-> reader,
                               result |-> DecryptToken(EncryptToken(secret, owner, salt),
                                                       reader)])]
    /\ UNCHANGED <<callbacks, tenancy, queries, analysis, integrations, deployments, trace, runs, timers, rollbacks,
                   cancelRequested, connects, now>>

\* refreshProviderToken(provider, currentToken).accessToken when it resolves
RefreshedToken(provider, currentToken) == "refreshed-token"

\* the orders findMany({ where: { userId } }) may return the rows in (no orderBy)
RowOrders ==
    {order \in [1..3 -> IntegrationProviders] : \A i, j \in 1..3 : i # j => order[i] # order[j]}

RECURSIVE RowsOf(_, _)
RowsOf(user, order) ==
    IF order = <<>> THEN <<>>
    ELSE LET rest == RowsOf(user, Tail(order))
             row == integrations[<<user, Head(order)>>]
         IN IF row = NoIntegration THEN rest
            ELSE <<[provider |-> Head(order), column |-> row]>> \o rest

\* rotateUserTokens(userId): findMany
RotateUserTokens(user, order) ==
    /\ vault.pc = "idle"
    /\ vault' = [vault EXCEPT !.pc = "loop", !.user = user,
                              !.items = RowsOf(user, order), !.log = <<>>]
    /\ UNCHANGED <<callbacks, tenancy, queries, analysis, integrations, deployments, trace, runs, timers, rollbacks,
                   cancelRequested, connects, now>>

\* what one pass of the loop body does: the first step that throws decides
RotationOutcome(current, refresh, dbOk) ==
    IF current = DecryptFailed THEN "decrypt_failed"
    ELSE IF refresh # "ok" THEN "refresh_failed"
    ELSE IF ~dbOk THEN "update_failed"
    ELSE "rotated"

\* a catch that throws again: the loop ends at the first failure
RotationStopsOnFailure(outcome) == outcome = "rotated"

\* catch (error) { console.error(...) }: logged, not thrown, the loop continues
RotationContinues(outcome) == TRUE

\* one pass of for (const integration of userTokens): decrypt, refresh, encrypt, update
RotateItem(refresh, salt, dbOk) ==
    /\ vault.pc = "loop"
    /\ Len(vault.log) < Len(vault.items)
    /\ LET item == vault.items[Len(vault.log) + 1]
           current == DecryptToken(item.column, vault.user)
           outcome == RotationOutcome(current, refresh, dbOk)
       IN /\ vault' = [vault EXCEPT
                          !.log = Append(@, [provider |-> item.provider,
                                             outcome |-> outcome]),
                          !.pc = IF RotationContinues(outcome) THEN "loop" ELSE "returned"]
          /\ IF outcome = "rotated"
               THEN integrations' =
                      [integrations EXCEPT ![<<vault.user, item.provider>>] =
                          EncryptToken(RefreshedToken(item.provider, current),
                                       vault.user, salt)]
               ELSE UNCHANGED integrations
    /\ UNCHANGED <<callbacks, tenancy, queries, analysis, deployments, trace, runs, timers, rollbacks, cancelRequested,
                   connects, now>>

\* the loop is over: rotateUserTokens resolves
RotateReturn ==
    /\ vault.pc = "loop"
    /\ Len(vault.log) = Len(vault.items)
    /\ vault' = [vault EXCEPT !.pc = "returned"]
    /\ UNCHANGED <<callbacks, tenancy, queries, analysis, integrations, deployments, trace, runs, timers, rollbacks,
                   cancelRequested, connects, now>>

\* The vault over a store that holds, for the requester and each of the two hosts, no
\* row or an envelope the vault made; connect and the GitHub login write their rows at
\* any moment.
InitVault ==
    /\ integrations \in
          {f \in [Users \X IntegrationProviders ->
                    {NoIntegration} \cup
                    {EncryptToken("real-token", u, "s1") : u \in Requesters}] :
              \A k \in Users \X IntegrationProviders :
                  \/ f[k] = NoIntegration
                  \/ /\ k[1] \in Requesters
                     /\ k[2] \in Providers
                     /\ f[k] = EncryptToken("real-token", k[1], "s1")}
    /\ deployments = <<>>
    /\ trace = <<>>
    /\ runs = <<>>
    /\ timers = {}
    /\ callbacks = {}
    /\ rollbacks = <<>>
    /\ cancelRequested = {}
    /\ connects = <<>>
    /\ now = 0
    /\ vault = NoRotation
    /\ analysis = NoAnalysis
    /\ tenancy = NoTenancy
    /\ queries = <<>>

\* the GitHub login of a requester
Login ==
    /\ Len(connects) < MaxConnects
    /\ \E u \in Requesters, tok \in GithubTokens, dbOk \in BOOLEAN : GithubLogin(u, tok, dbOk)

NextVault ==
    \/ Connect
    \/ Login
    \/ \E s \in Secrets, o \in Users, salt \in Salts, o2 \in Users :
          OpenEnvelope(s, o, salt, o2)
    \/ \E u \in Requesters, order \in RowOrders : RotateUserTokens(u, order)
    \/ \E refresh \in {"ok", "unavailable"}, salt \in Salts, dbOk \in BOOLEAN :
          RotateItem(refresh, salt, dbOk)
    \/ RotateReturn

SpecVault == InitVault /\ [][NextVault]_vars

\* ------------------------------------------------------------------ analysis
MaxAnalyses == 2
MaxDetections == 2

\* the dependency names the inputs draw from
DepNames == {"next", "react", "express", "gatsby"}

\* repoData.packageJson as fetchRepositoryData leaves it: undefined ("absent"), the
\* file's text when JSON.parse threw ("text"), or the parsed object ("object") with
\* the names under dependencies and devDependencies (hasDependencies: the key is there)
Manifest(kind, has, deps, dev) ==
    [kind |-> kind, hasDependencies |-> has, dependencies |-> deps,
     devDependencies |-> dev]

\* package.json as it is in the repository: not there, not JSON, or JSON
ManifestFiles ==
    {[present |-> FALSE, json |-> FALSE, has |-> FALSE, deps |-> {}, dev |-> {}],
     [present |-> TRUE, json |-> FALSE, has |-> FALSE, deps |-> {}, dev |-> {}],
     [present |-> TRUE, json |-> TRUE, has |-> FALSE, deps |-> {}, dev |-> {}]}
    \cup {[present |-> TRUE, json |-> TRUE, has |-> TRUE, deps |-> d, dev |-> {}] :
            d \in SUBSET DepNames}

\* fetchRepositoryData 187-202: JSON.parse, and the text kept when it throws
ParseManifest(file) ==
    IF ~file.present THEN Manifest("absent", FALSE, {}, {})
    ELSE IF ~file.json THEN Manifest("text", FALSE, {}, {})
    ELSE Manifest("object", file.has, file.deps, file.dev)

\* fetchRepositoryData: the fields of repoData the analysis reads
FetchRepositoryData(file, dockerFile, dirs) ==
    [packageJson |-> ParseManifest(file), dockerFile |-> dockerFile,
     directories |-> dirs]

\* if (packageJson) in place of if (packageJson?.dependencies)
HasDependenciesUnchecked(packageJson) == packageJson.kind # "absent"

\* getFallbackAnalysis: if (packageJson?.dependencies)
HasDependencies(packageJson) ==
    packageJson.kind = "object" /\ packageJson.hasDependencies

\* getFallbackAnalysis 814-832: the framework the if-else chain settles on
\* ("TypeError": a property of undefined was read)
FallbackFramework(packageJson) ==
    IF ~HasDependencies(packageJson) THEN "Unknown"
    ELSE IF ~(packageJson.kind = "object" /\ packageJson.hasDependencies) THEN "TypeError"
    ELSE IF "next" \in packageJson.dependencies THEN "Next.js"
    ELSE IF "react" \in packageJson.dependencies /\ "next" \notin packageJson.dependencies
      THEN "React"
    ELSE IF "express" \in packageJson.dependencies THEN "Express.js"
    ELSE IF "vue" \in packageJson.dependencies THEN "Vue.js"
    ELSE IF "svelte" \in packageJson.dependencies THEN "Svelte"
    ELSE "Unknown"

FallbackProvider(framework) ==
    IF framework \in {"React", "Vue.js"} THEN "netlify"
    ELSE IF framework = "Express.js" THEN "render"
    ELSE "vercel"

\* what an analysis returns: confidence in hundredths; options is
\* deployment.options, the ranked providers (getFallbackAnalysis returns none)
AnalysisResult(framework, confidence, provider, reason, options) ==
    [framework |-> framework, confidence |-> confidence,
     buildCommand |-> "npm run build",
     startCommand |-> IF framework = "Express.js" THEN "npm run start" ELSE "npm start",
     outputDirectory |-> IF framework = "Next.js" THEN ".next" ELSE "dist",
     recommendedProvider |-> provider, reason |-> reason, options |-> options]

\* getFallbackAnalysis 806-863 (the versions of the dependencies are not modelled)
GetFallbackAnalysis(repoData) ==
    LET framework == FallbackFramework(repoData.packageJson)
    IN AnalysisResult(framework, 70, FallbackProvider(framework),
                      <<framework, "works well with", FallbackProvider(framework)>>,
                      <<>>)

\* what the model answers when its reply parses and has every field: any JSON of the
\* requested shape; two of them
AiAnswers ==
    {AnalysisResult("Next.js", 95, "vercel", <<"ai", "answer", "one">>,
                    <<[provider |-> "vercel", suitability |-> "high",
                       reason |-> "framework affinity"]>>),
     AnalysisResult("Express.js", 80, "render", <<"ai", "answer", "two">>,
                    <<[provider |-> "render", suitability |-> "high",
                       reason |-> "server hosting"]>>)}

\* the completion: the call rejects, the reply is not JSON, the reply is JSON without
\* a framework, or one of AiAnswers
AiReplies == {"error", "unparseable", "incomplete", "answer"}

RuleBasedReplies == {"error", "unparseable"}

NoAnalysisResult == AnalysisResult("none", 0, "none", <<>>, <<>>)

\* JSON.parse of a completion that has no framework key: framework is undefined
IncompleteAnswer == AnalysisResult("undefined", 0, "none", <<>>, <<>>)

\* what an analysis call holds of the repository when it fetched nothing
NoRepoData ==
    [packageJson |-> Manifest("absent", FALSE, {}, {}), dockerFile |-> FALSE,
     directories |-> {}]

\* analyzeRepositoryWithAI 95-109: providerIntegration.findUnique of (user, 'github');
\* if (!integration) throw; JSON.parse(integration.encryptedToken).access_token, which
\* throws on a column that is no JSON text
HasGithubToken(user) ==
    /\ integrations[<<user, "github">>] # NoIntegration
    /\ "access_token" \in DOMAIN integrations[<<user, "github">>]

\* what GitHub answers fetchRepositoryData: the contents of the repository, a 401 body
\* (an object, on which contents.find is not a function), or nothing (fetch rejects)
GithubAnswers == {"ok", "unauthorized", "network"}

\* what repository.findFirst({ where: { fullName } }) answers: rejected, no row, or
\* the row getGitHubRepositories (part_010:50) upserted for a repository it listed
RepositoryAnswers == {"rejected", "null", "row"}

\* AnalysisService.analyzeRepositoryWithAI 666-804: JSON.parse of the completion, and
\* getFallbackAnalysis in both catch blocks; an exception of getFallbackAnalysis leaves
\* the method
AnalysisServiceAnalyze(repoData, reply, answer) ==
    IF reply = "answer" THEN [thrown |-> "none", aiAnalysis |-> answer]
    ELSE IF reply = "incomplete" THEN [thrown |-> "none", aiAnalysis |-> IncompleteAnswer]
    ELSE IF FallbackFramework(repoData.packageJson) = "TypeError"
      THEN [thrown |-> "TypeError", aiAnalysis |-> NoAnalysisResult]
    ELSE [thrown |-> "none", aiAnalysis |-> GetFallbackAnalysis(repoData)]

\* A call ends: return aiAnalysis (136), or an exception reaches the catch of 137-140,
\* which throws Error('Failed to analyze repository'). Kept of the call: what it
\* fetched, the completion and what AnalysisService made of it, the call whose
\* exception ended it (thrownAt), the result returned, and whether a row of
\* repository_analysis was written (stored).
AnalysisEnds(c, thrownAt, stored) ==
    analysis' =
        [analysis EXCEPT
            !.calls = Append(@, [user |-> c.user, fetched |-> c.fetched, file |-> c.file,
                                 repoData |-> c.repoData, reply |-> c.reply,
                                 aiAnalysis |-> c.aiAnalysis, thrownAt |-> thrownAt,
                                 raised |-> thrownAt # "none",
                                 result |-> IF thrownAt = "none" THEN c.aiAnalysis
                                            ELSE NoAnalysisResult,
                                 stored |-> stored]),
            !.inflight = <<>>]

\* RepositoriesService.analyzeRepositoryWithAI(userId, repoFullName) 92-102: the
\* request arrives and the handler asks for the user's GitHub integration
AnalyzeRepositoryWithAI(user) ==
    /\ analysis.inflight = <<>>
    /\ Len(analysis.calls) < MaxAnalyses
    /\ analysis' =
         [analysis EXCEPT !.inflight =
             <<[pc |-> "findUnique", user |-> user, fetched |-> FALSE, file |-> NoFile,
                repoData |-> NoRepoData, reply |-> "none",
                aiAnalysis |-> NoAnalysisResult]>>]
    /\ UNCHANGED <<callbacks, tenancy, queries, vault, integrations, deployments, trace, runs, timers, rollbacks,
                   cancelRequested, connects, now>>

\* 103-112: findUnique answered; without a GitHub token of the user nothing is
\* fetched, otherwise fetchRepositoryData is called
AnalysisIntegrationRead(dbOk) ==
    /\ analysis.inflight # <<>>
    /\ analysis.inflight[1].pc = "findUnique"
    /\ LET c == analysis.inflight[1]
       IN IF dbOk /\ HasGithubToken(c.user)
            THEN analysis' = [analysis EXCEPT !.inflight[1].pc = "fetchRepositoryData"]
            ELSE AnalysisEnds(c, "findUnique", FALSE)
    /\ UNCHANGED <<callbacks, tenancy, queries, vault, integrations, deployments, trace, runs, timers, rollbacks,
                   cancelRequested, connects, now>>

\* fetchRepositoryData 144-213 returned or threw (a file whose download fails is left
\* out as a file that is not there, 203-205); then analysisService is called (115)
AnalysisRepositoryFetched(github) ==
    /\ analysis.inflight # <<>>
    /\ analysis.inflight[1].pc = "fetchRepositoryData"
    /\ LET c == analysis.inflight[1]
           repository == analysis.repository
       IN IF github = "ok"
            THEN analysis' =
                   [analysis EXCEPT !.inflight =
                       <<[c EXCEPT !.pc = "analysisService", !.fetched = TRUE,
                                   !.file = repository.file,
                                   !.repoData =
                                       FetchRepositoryData(repository.file,
                                                           repository.dockerFile,
                                                           repository.dirs)]>>]
            ELSE AnalysisEnds(c, "fetchRepositoryData", FALSE)
    /\ UNCHANGED <<callbacks, tenancy, queries, vault, integrations, deployments, trace, runs, timers, rollbacks,
                   cancelRequested, connects, now>>

\* 115-120: analysisService.analyzeRepositoryWithAI(repoData) returned or threw; then
\* repository.findFirst is called
AnalysisCompletion(reply, answer) ==
    /\ analysis.inflight # <<>>
    /\ analysis.inflight[1].pc = "analysisService"
    /\ LET c == analysis.inflight[1]
           ai == AnalysisServiceAnalyze(c.repoData, reply, answer)
       IN IF ai.thrown = "none"
            THEN analysis' =
                   [analysis EXCEPT !.inflight =
                       <<[c EXCEPT !.pc = "findFirst", !.reply = reply,
                                   !.aiAnalysis = ai.aiAnalysis]>>]
            ELSE AnalysisEnds([c EXCEPT !.reply = reply], "analysisService", FALSE)
    /\ UNCHANGED <<callbacks, tenancy, queries, vault, integrations, deployments, trace, runs, timers, rollbacks,
                   cancelRequested, connects, now>>

\* 118-136: findFirst answered; without a row the analysis is returned; with one the
\* data of repositoryAnalysis.create is built, which reads aiAnalysis.framework.name,
\* a property of undefined when the completion has no framework, and the create is
\* called
AnalysisRepositoryRead(repository) ==
    /\ analysis.inflight # <<>>
    /\ analysis.inflight[1].pc = "findFirst"
    /\ LET c == analysis.inflight[1]
       IN IF repository = "rejected" THEN AnalysisEnds(c, "findFirst", FALSE)
          ELSE IF repository = "null" THEN AnalysisEnds(c, "none", FALSE)
          ELSE IF c.aiAnalysis = IncompleteAnswer
            THEN AnalysisEnds(c, "framework.name", FALSE)
          ELSE analysis' = [analysis EXCEPT !.inflight[1].pc = "create"]
    /\ UNCHANGED <<callbacks, tenancy, queries, vault, integrations, deployments, trace, runs, timers, rollbacks,
                   cancelRequested, connects, now>>

\* 123-136: repositoryAnalysis.create answered
AnalysisCreate(dbOk) ==
    /\ analysis.inflight # <<>>
    /\ analysis.inflight[1].pc = "create"
    /\ LET c == analysis.inflight[1]
       IN IF dbOk THEN AnalysisEnds(c, "none", TRUE) ELSE AnalysisEnds(c, "create", FALSE)
    /\ UNCHANGED <<callbacks, tenancy, queries, vault, integrations, deployments, trace, runs, timers, rollbacks,
                   cancelRequested, connects, now>>

\* the repository to analyse holds any package.json of ManifestFiles, a Dockerfile
\* or none, a directory app or none; nothing else has happened
InitAnalysis ==
    /\ integrations = [k \in Users \X IntegrationProviders |-> NoIntegration]
    /\ deployments = <<>>
    /\ trace = <<>>
    /\ runs = <<>>
    /\ timers = {}
    /\ callbacks = {}
    /\ rollbacks = <<>>
    /\ cancelRequested = {}
    /\ connects = <<>>
    /\ now = 0
    /\ vault = NoRotation
    /\ \E file \in ManifestFiles, dockerFile \in BOOLEAN, dirs \in SUBSET {"app"} :
          analysis = [NoAnalysis EXCEPT !.repository =
                         [file |-> file, dockerFile |-> dockerFile, dirs |-> dirs]]
    /\ tenancy = NoTenancy
    /\ queries = <<>>

\* analyses asked by a requester, before and after the GitHub login
NextAnalysis ==
    \/ Login
    \/ \E u \in Requesters : AnalyzeRepositoryWithAI(u)
    \/ \E dbOk \in BOOLEAN : AnalysisIntegrationRead(dbOk)
    \/ \E github \in GithubAnswers : AnalysisRepositoryFetched(github)
    \/ \E reply \in AiReplies, answer \in AiAnswers : AnalysisCompletion(reply, answer)
    \/ \E repository \in RepositoryAnswers : AnalysisRepositoryRead(repository)
    \/ \E dbOk \in BOOLEAN : AnalysisCreate(dbOk)

SpecAnalysis == InitAnalysis /\ [][NextAnalysis]_vars

\* ------------------------------------------------------------------ detectFramework
\* RepositoriesService.detectFramework 279-309: its branches in the order they are
\* written, each with the dependency it asks for, the dependencies that rule it out
\* and the confidence (in hundredths) and provider it returns
DetectRules ==
    <<[name |-> "Next.js", requires |-> "next", excludes |-> {}, confidence |-> 95,
       provider |-> "vercel"],
      [name |-> "React", requires |-> "react", excludes |-> {"next"}, confidence |-> 85,
       provider |-> "netlify"],
      [name |-> "Express.js", requires |-> "express", excludes |-> {}, confidence |-> 90,
       provider |-> "render"]>>

\* the default of lines 311-318
DetectDefault ==
    [name |-> "Node.js", requires |-> "none", excludes |-> {}, confidence |-> 60,
     provider |-> "render"]

\* const dependencies = { ...packageJson.dependencies, ...packageJson.devDependencies }
MergedDependencies(packageJson) ==
    packageJson.dependencies \cup packageJson.devDependencies

\* the condition of a branch
RuleFires(rule, dependencies) ==
    rule.requires \in dependencies /\ rule.excludes \cap dependencies = {}

\* the branches whose condition holds
FiringRules(dependencies) ==
    {k \in 1..Len(DetectRules) : RuleFires(DetectRules[k], dependencies)}

\* the chain of ifs: the first branch whose condition holds returns
DetectWinner(dependencies) ==
    IF FiringRules(dependencies) = {} THEN DetectDefault
    ELSE DetectRules[CHOOSE k \in FiringRules(dependencies) :
            \A j \in FiringRules(dependencies) : k <= j]

\* detectFramework(packageJson): reading .dependencies of undefined throws
DetectFramework(packageJson) ==
    IF packageJson.kind = "absent"
      THEN [raised |-> TRUE, rule |-> DetectDefault]
      ELSE [raised |-> FALSE, rule |-> DetectWinner(MergedDependencies(packageJson))]

\* the manifests detectFramework is applied to
DetectInputs ==
    {ParseManifest(file) : file \in ManifestFiles}
    \cup {Manifest("object", TRUE, d, {"next"}) : d \in SUBSET DepNames}

ApplyDetectFramework(packageJson) ==
    /\ Len(analysis.detected) < MaxDetections
    /\ analysis' =
         [analysis EXCEPT !.detected =
             Append(@, [packageJson |-> packageJson,
                        raised |-> DetectFramework(packageJson).raised,
                        rule |-> DetectFramework(packageJson).rule])]
    /\ UNCHANGED <<callbacks, tenancy, queries, vault, integrations, deployments, trace, runs, timers, rollbacks,
                   cancelRequested, connects, now>>

NextDetect == \E packageJson \in DetectInputs : ApplyDetectFramework(packageJson)

SpecDetect == Init /\ [][NextDetect]_vars

\* ------------------------------------------------------------------ ProviderMatcher
MaxRankings == 2

\* scores are kept in units of 1/3000, in which every term of calculateProviderScore
\* is a whole number (0.4 is 1200, the threshold 0.3 is 900, the cap 1.0 is 3000)
\* Object.entries(this.providerCapabilities): the providers in the order declared
MatcherProviders == <<"vercel", "render", "railway", "netlify">>

\* providerCapabilities 907-936; performance is build_speed + cold_start +
\* (global_cdn || 5)
ProviderCapabilities(provider) ==
    IF provider = "vercel"
      THEN [frameworks |-> {"Next.js", "React SPA", "Svelte", "Vue.js"},
            features |-> {"serverless", "edge_functions", "static_hosting", "cdn"},
            limitations |-> {"serverSide", "longRunning"}, freeTier |-> TRUE,
            performance |-> 9 + 9 + 10]
    ELSE IF provider = "render"
      THEN [frameworks |-> {"Express.js", "FastAPI", "Django", "Ruby on Rails", "Docker"},
            features |-> {"server_hosting", "databases", "cron_jobs", "docker"},
            limitations |-> {"cold_start"}, freeTier |-> TRUE,
            performance |-> 7 + 6 + 5]
    ELSE IF provider = "railway"
      THEN [frameworks |-> {"Any", "Docker", "Node.js", "Python", "Go"},
            features |-> {"databases", "docker", "scale_to_zero", "private_networking"},
            limitations |-> {}, freeTier |-> TRUE,
            performance |-> 8 + 7 + 5]
    ELSE [frameworks |-> {"React SPA", "Vue.js", "Gatsby", "Static Sites"},
          features |-> {"static_hosting", "functions", "forms", "cdn"},
          limitations |-> {"serverSide", "databases"}, freeTier |-> TRUE,
          performance |-> 8 + 8 + 9]

\* the analyses and preferences the matcher is applied to (framework "": none detected)
MatcherAnalyses ==
    [framework : {"Next.js", "React SPA", "Express.js", "Docker", "Unknown", ""},
     requiresServer : BOOLEAN, requiresDatabase : BOOLEAN, isStatic : BOOLEAN]

MatcherPreferences == {[costPriority |-> "low"], [costPriority |-> "none"]}

\* calculateProviderScore 970-977
FrameworkTerm(repoAnalysis, capabilities) ==
    IF repoAnalysis.framework # "" /\ repoAnalysis.framework \in capabilities.frameworks
      THEN [score |-> 1200, reasons |-> <<"native_framework_support">>]
    ELSE IF "Any" \in capabilities.frameworks \/ "Docker" \in capabilities.frameworks
      THEN [score |-> 600, reasons |-> <<"generic_framework_support">>]
    ELSE [score |-> 0, reasons |-> <<>>]

\* calculateProviderScore 979-1006: (featureScore / Math.max(requiredFeatures, 1)) * 0.3
FeatureTerm(repoAnalysis, capabilities) ==
    LET server == repoAnalysis.requiresServer /\ "server_hosting" \in capabilities.features
        database == repoAnalysis.requiresDatabase /\ "databases" \in capabilities.features
        static == repoAnalysis.isStatic /\ "static_hosting" \in capabilities.features
        matched == (IF server THEN 1 ELSE 0) + (IF database THEN 1 ELSE 0)
                   + (IF static THEN 1 ELSE 0)
        required == (IF repoAnalysis.requiresServer THEN 1 ELSE 0)
                    + (IF repoAnalysis.requiresDatabase THEN 1 ELSE 0)
    IN [score |-> (matched * 90) \div (IF required > 1 THEN required ELSE 1),
        reasons |-> (IF server THEN <<"server_side_rendering_support">> ELSE <<>>)
                    \o (IF database THEN <<"integrated_database_support">> ELSE <<>>)
                    \o (IF static THEN <<"optimized_for_static_sites">> ELSE <<>>)]

\* calculateProviderScore 1016-1020
CostTerm(capabilities, preferences) ==
    IF preferences.costPriority = "low" /\ capabilities.freeTier
      THEN [score |-> 300, reasons |-> <<"free_tier_available">>]
      ELSE [score |-> 0, reasons |-> <<>>]

\* calculateProviderScore 962-1026; the performance term is (sum / 30) * 0.2
CalculateProviderScore(repoAnalysis, capabilities, preferences) ==
    LET fw == FrameworkTerm(repoAnalysis, capabilities)
        ft == FeatureTerm(repoAnalysis, capabilities)
        ct == CostTerm(capabilities, preferences)
        score == fw.score + ft.score + capabilities.performance * 20 + ct.score
    IN [total |-> IF score < 3000 THEN score ELSE 3000,
        reasons |-> fw.reasons \o ft.reasons \o ct.reasons]

\* the comparator of recommendations.sort: (a, b) => b.score - a.score
CompareScores(a, b) == b.score - a.score

\* Array.prototype.sort, which is stable: x goes behind the elements that do not
\* compare greater than it
RECURSIVE SortInsert(_, _)
SortInsert(x, sorted) ==
    IF sorted = <<>> THEN <<x>>
    ELSE IF CompareScores(Head(sorted), x) > 0 THEN <<x>> \o sorted
    ELSE <<Head(sorted)>> \o SortInsert(x, Tail(sorted))

RECURSIVE SortRecommendations(_)
SortRecommendations(list) ==
    IF list = <<>> THEN <<>>
    ELSE SortInsert(list[Len(list)], SortRecommendations(SubSeq(list, 1, Len(list) - 1)))

\* selectOptimalProvider 943-957: the loop over the providers in the order declared.
\* For a provider with score.total > 0.3 the entry to push is built first, and its
\* last field calls this.identifyLimitations (954), a method ProviderMatcher does not
\* have: the call throws TypeError and the loop ends there with nothing returned. A
\* provider at or below 0.3 pushes nothing, so a loop that runs to its end leaves
\* recommendations as it was declared at 942.
RECURSIVE Recommendations(_, _, _)
Recommendations(providers, repoAnalysis, preferences) ==
    IF providers = <<>> THEN [thrown |-> "none", list |-> <<>>]
    ELSE LET capabilities == ProviderCapabilities(Head(providers))
             score == CalculateProviderScore(repoAnalysis, capabilities, preferences)
         IN IF score.total > 900
              THEN [thrown |-> "TypeError", list |-> <<>>]
              ELSE Recommendations(Tail(providers), repoAnalysis, preferences)

\* selectOptimalProvider(analysis, preferences) 938-960: an async method, so an
\* exception of the loop rejects the promise it returns; otherwise the promise
\* resolves with recommendations.sort(...)
SelectOptimalProvider(repoAnalysis, preferences) ==
    LET pushed == Recommendations(MatcherProviders, repoAnalysis, preferences)
    IN IF pushed.thrown # "none"
         THEN [thrown |-> pushed.thrown, recommendations |-> <<>>]
         ELSE [thrown |-> "none", recommendations |-> SortRecommendations(pushed.list)]

\* one call of selectOptimalProvider and what came of it
ApplySelectOptimalProvider(a, preferences) ==
    /\ Len(analysis.ranked) < MaxRankings
    /\ analysis' =
         [analysis EXCEPT !.ranked =
             Append(@, [analysis |-> a, preferences |-> preferences,
                        thrown |-> SelectOptimalProvider(a, preferences).thrown,
                        recommendations |->
                            SelectOptimalProvider(a, preferences).recommendations])]
    /\ UNCHANGED <<callbacks, tenancy, queries, vault, integrations, deployments, trace, runs, timers, rollbacks,
                   cancelRequested, connects, now>>

NextRanking ==
    \E a \in MatcherAnalyses, preferences \in MatcherPreferences :
        ApplySelectOptimalProvider(a, preferences)

SpecRanking == Init /\ [][NextRanking]_vars

\* ------------------------------------------------------------------ properties
\* The statuses of the specification and the strings the code stores: needs_setup is
\* 'requires_setup'; queued, validating_credential and attempting are the in-progress
\* strings 'deploying' and 'demo_deployment'; a simulated deployment that completed is
\* 'demo_complete'.
SettledStatuses == TerminalStatuses \cup {"demo_complete", "setup_required"}

FailedOutcomes == {"auth", "unavailable", "network", "invalid_url"}
RecoverableOutcomes == {"unavailable", "network"}

IsPrefix(s, t) ==
    /\ Len(s) <= Len(t)
    /\ \A i \in 1..Len(s) : s[i] = t[i]

\* the strategy a log entry reports on ("none": the entry names no strategy)
StrategyOfEntry(msg) ==
    IF msg \in {"git_connected_continuous", "manual_deployment_git_connection_failed"}
         \/ \E i \in 1..Len(GitConnectedLogs) : GitConnectedLogs[i] = msg
      THEN "git_link"
    ELSE IF msg \in {"zip_error", "deployment_failed"}
              \/ \E i \in 1..Len(ZipDeployedLogs) : ZipDeployedLogs[i] = msg
      THEN "zip_upload"
    ELSE IF msg = "connect_github_in_dashboard" THEN "deploy_hook"
    ELSE "none"

\* a run whose row is still in progress
ActiveRun(r) ==
    /\ runs[r].dep # 0
    /\ deployments[runs[r].dep].status \in InProgressStatuses

\* deployment.create answers with the id of the row it inserted, and a deployment
\* request names no id: no two runs hold the same deployment id, so that a row in
\* progress has one run writing to it
RunsHoldDistinctDeployments ==
    \A r1 \in 1..Len(runs), r2 \in 1..Len(runs) :
        r1 # r2 /\ ActiveRun(r1) => runs[r1].dep # runs[r2].dep

\* C1: once a record's status is terminal (deployed, requires_setup, failed), no step
\* of any operation (run continuation, demo-completion callback, error handler,
\* rollback) changes that record's status.
C1_TerminalStatusIsFinal ==
    [][\A d \in 1..Len(deployments) :
          deployments[d].status \in TerminalStatuses
             => deployments'[d].status = deployments[d].status]_vars

\* C1, witness: a record a run deployed, and after it a demo completion of a later
\* record and a rollback were applied.
C1_Witness ==
    \E d \in 1..Len(deployments), e \in 1..Len(deployments) :
        /\ d < e
        /\ deployments[d].status = "deployed"
        /\ trace[d].origin # "rollbackDeployment"
        /\ deployments[e].status = "demo_complete"
        /\ \E k \in 1..Len(rollbacks) : rollbacks[k].result = "ok"

\* C11: a rollback, successful or not, makes no call to a provider (Vercel, Netlify):
\* at every step of its handler its operation trace holds no external call, and the step
\* starts or continues no run and no callback.
C11_RollbackMakesNoProviderCall ==
    [][\A k \in 1..Len(rollbacks') :
          k > Len(rollbacks) \/ rollbacks'[k] # rollbacks[k]
          => /\ rollbacks'[k].calls = <<>>
             /\ runs' = runs
             /\ timers' = timers
             /\ callbacks' = callbacks]_vars

\* C11, witness: a rollback that created its record has been handled.
C11_Witness ==
    \E k \in 1..Len(rollbacks) :
        /\ rollbacks[k].result = "ok"
        /\ deployments[rollbacks[k].created].status = "deployed"
        /\ trace[rollbacks[k].created].origin = "rollbackDeployment"

\* C2 as stated: every record with status deployed was earlier in an in-progress
\* status (validating, attempting); none is created in status deployed.
C2_DeployedWasInProgress ==
    \A d \in 1..Len(deployments) :
        deployments[d].status = "deployed"
           => \E i \in 1..Len(trace[d].statuses) :
                 /\ i < Len(trace[d].statuses)
                 /\ trace[d].statuses[i] \in InProgressStatuses

\* C2 as amended: a record becomes deployed either by a rollback, which creates it in
\* that status, or by the update of a run that found it in progress and has made a
\* strategy attempt with a provider call.
C2_DeployedByAttemptOrRollback ==
    [][\A d \in 1..Len(deployments') :
          /\ deployments'[d].status = "deployed"
          /\ d <= Len(deployments) => deployments[d].status # "deployed"
          => IF d > Len(deployments)
               THEN trace'[d].origin = "rollbackDeployment"
               ELSE /\ deployments[d].status \in InProgressStatuses
                    /\ \E r \in 1..Len(runs) :
                          /\ runs[r].dep = d
                          /\ runs[r].attempts # <<>>
                          /\ \E i \in 1..Len(runs[r].calls) :
                                runs[r].calls[i].api = runs[r].provider]_vars

\* C2, witness: a record deployed by a run and a record created deployed by a rollback.
C2_Witness ==
    \E d \in 1..Len(deployments), e \in 1..Len(deployments) :
        /\ deployments[d].status = "deployed"
        /\ trace[d].statuses = <<"deploying", "deployed">>
        /\ deployments[e].status = "deployed"
        /\ trace[e].origin = "rollbackDeployment"
        /\ trace[e].statuses = <<"deployed">>

\* C3: the log of a record is append-only: at every step the log before is a prefix
\* of the log after.
C3_LogAppendOnly ==
    [][\A d \in 1..Len(deployments) :
          IsPrefix(deployments[d].logs, deployments'[d].logs)]_vars

\* C4: a run with a real credential whose every strategy attempt failed leaves its
\* record in status failed.
C4_AllStrategiesFailedEndsFailed ==
    \A r \in 1..Len(runs) :
        /\ runs[r].pc = "done"
        /\ runs[r].isReal
        /\ ~runs[r].dbError
        /\ runs[r].attempts # <<>>
        /\ \A i \in 1..Len(runs[r].attempts) :
              runs[r].attempts[i].outcome \in FailedOutcomes
        => deployments[runs[r].dep].status = "failed"

\* C5: a run of a user without a stored credential for the provider makes no call to
\* the provider and leaves its record in status requires_setup.
C5_NoCredentialNeedsSetup ==
    \A r \in 1..Len(runs) :
        runs[r].pc # "returned" /\ runs[r].cred = "none"
        => /\ \A i \in 1..Len(runs[r].calls) :
                 runs[r].calls[i].api # runs[r].provider
           /\ runs[r].pc = "done" /\ ~runs[r].dbError
                 => deployments[runs[r].dep].status = "requires_setup"

\* C6: an attempt the provider answers with an authentication failure is the only and
\* last attempt of its run, and the run leaves its record in status failed.
C6_AuthFailureIsFatal ==
    \A r \in 1..Len(runs) :
        runs[r].isReal
        => \A i \in 1..Len(runs[r].attempts) :
              runs[r].attempts[i].outcome = "auth"
              => /\ Len(runs[r].attempts) = 1
                 /\ runs[r].pc = "done" /\ ~runs[r].dbError
                       => deployments[runs[r].dep].status = "failed"

\* C7: when the first strategy of a run fails recoverably and the second succeeds, the
\* record is deployed and its log has an entry on the first strategy and, later, an
\* entry on the second.
C7_FallbackLogsBothAttempts ==
    \A r \in 1..Len(runs) :
        /\ runs[r].pc = "done"
        /\ runs[r].isReal
        /\ ~runs[r].dbError
        /\ Len(runs[r].attempts) = 2
        /\ runs[r].attempts[1].outcome \in RecoverableOutcomes
        /\ runs[r].attempts[2].outcome = "ok"
        => LET logs == deployments[runs[r].dep].logs
           IN /\ deployments[runs[r].dep].status = "deployed"
              /\ \E i \in 1..Len(logs), j \in 1..Len(logs) :
                    /\ i < j
                    /\ StrategyOfEntry(logs[i].message) = runs[r].attempts[1].strategy
                    /\ StrategyOfEntry(logs[j].message) = runs[r].attempts[2].strategy

\* C9: no strategy attempt starts for a deployment whose cancellation has been
\* requested.
C9_CancelStopsFurtherAttempts ==
    \A r \in 1..Len(runs) :
        \A i \in 1..Len(runs[r].attempts) : ~runs[r].attempts[i].cancelSeen

\* C10: a record whose handler has returned or thrown and that has no pending callback
\* has reached a final status.
C10_RunEndsTerminal ==
    \A d \in 1..Len(deployments) :
        /\ \A r \in 1..Len(runs) :
              runs[r].dep = d => runs[r].pc \in {"done", "returned"}
        /\ \A t \in timers : t.dep # d
        /\ \A c \in callbacks : c.dep # d
        => deployments[d].status \in SettledStatuses

\* the record of D's project with status deployed that started before D and has the
\* greatest start time among those
MostRecentDeployedBefore(t, d) ==
    /\ deployments[t].projectId = deployments[d].projectId
    /\ deployments[t].status = "deployed"
    /\ deployments[t].startedAt < deployments[d].startedAt
    /\ \A t2 \in 1..Len(deployments) :
          /\ deployments[t2].projectId = deployments[d].projectId
          /\ deployments[t2].status = "deployed"
          /\ deployments[t2].startedAt < deployments[d].startedAt
          => deployments[t2].startedAt <= deployments[t].startedAt

\* C12: a successful rollback of D creates exactly one record, with status deployed,
\* whose branch, commit, configuration and URL are those of T, the deployed record of
\* D's project with the greatest start time before D's at the moment the rollback looks
\* for it; no other record changes.
C12_RollbackCopiesMostRecentDeployed ==
    [][\A k \in 1..Len(rollbacks) :
          /\ rollbacks[k].pc = "find_previous" /\ rollbacks'[k].pc = "create"
             => /\ MostRecentDeployedBefore(rollbacks'[k].target, rollbacks[k].dep)
                /\ deployments' = deployments
          /\ rollbacks[k].result = "pending" /\ rollbacks'[k].result = "ok"
             => LET c == Len(deployments) + 1
                    t == rollbacks[k].target
                IN /\ Len(deployments') = c
                   /\ rollbacks'[k].created = c
                   /\ \A i \in 1..Len(deployments) : deployments'[i] = deployments[i]
                   /\ deployments'[c].status = "deployed"
                   /\ deployments'[c].branch = deployments[t].branch
                   /\ deployments'[c].commitSha = deployments[t].commitSha
                   /\ deployments'[c].configuration = deployments[t].configuration
                   /\ deployments'[c].url = deployments[t].url]_vars

\* C12, witness: a rollback succeeded whose D had two earlier deployed records with
\* different start times and URLs, and the new record has the later one's URL.
C12_Witness ==
    \E k \in 1..Len(rollbacks) :
        /\ rollbacks[k].result = "ok"
        /\ \E t2 \in 1..Len(deployments) :
              /\ deployments[t2].status = "deployed"
              /\ deployments[t2].startedAt < deployments[rollbacks[k].target].startedAt
              /\ deployments[t2].url # deployments[rollbacks[k].target].url
        /\ deployments[rollbacks[k].created].url = deployments[rollbacks[k].target].url

\* C13: a rollback of D by its creator that finds, when it looks for the record to
\* copy, no deployed record of D's project that started strictly before D, fails with
\* 'No previous deployment found for rollback'; no step of a rollback that fails (also
\* one whose create the store rejects) creates or modifies a record.
C13_NoPriorDeploymentFails ==
    [][\A k \in 1..Len(rollbacks') :
          /\ (/\ k <= Len(rollbacks)
              /\ rollbacks[k].pc = "find_previous"
              /\ rollbacks'[k] # rollbacks[k]
              /\ \A t \in 1..Len(deployments) :
                    ~(/\ deployments[t].projectId = deployments[rollbacks[k].dep].projectId
                      /\ deployments[t].status = "deployed"
                      /\ deployments[t].startedAt
                            < deployments[rollbacks[k].dep].startedAt))
             => rollbacks'[k].result = "No previous deployment found for rollback"
          /\ (/\ k > Len(rollbacks) \/ rollbacks'[k] # rollbacks[k]
              /\ rollbacks'[k].result # "ok")
             => deployments' = deployments]_vars

\* C13, witness: a rollback of a deployed record with no earlier deployed record failed
\* with that error.
C13_Witness ==
    \E k \in 1..Len(rollbacks) :
        /\ rollbacks[k].result = "No previous deployment found for rollback"
        /\ deployments[rollbacks[k].dep].status = "deployed"
        /\ rollbacks[k].created = 0

\* C14: a run with a demo credential (a simulated deployment) makes no call to the API
\* of a provider.
C14_DemoRunMakesNoProviderCall ==
    \A r \in 1..Len(runs) :
        runs[r].cred = "demo"
        => \A i \in 1..Len(runs[r].calls) : runs[r].calls[i].api \notin Providers

\* the response of a deployment request is flagged simulated: status 'demo_deployment',
\* isDemo true
ResponseIsDemo(response) == response = "demo_deployment"

\* the connect requests that ask for a demo credential: with the demo flag or without
\* a token
DemoConnects == {k \in 1..Len(connects) : connects[k].demo}

\* the deployment runs started with a demo credential that returned a result
DemoRunsReturned ==
    {r \in 1..Len(runs) :
        runs[r].cred = "demo" /\ runs[r].pc = "done" /\ runs[r].response # "throw"}

\* C15: for every provider, connecting a demo credential always returns success,
\* whatever the provider would answer, and every deployment run started with a demo
\* credential returns a result flagged simulated.
C15_DemoCredentialAlwaysValidAndFlagged ==
    /\ \A k \in DemoConnects : connects[k].success
    /\ \A r \in DemoRunsReturned : ResponseIsDemo(runs[r].response)

\* C15 as amended: for vercel and netlify a demo credential is never validated against
\* the provider: connecting it is never answered 'Token validation failed', it returns
\* success when the integration is saved and 'Failed to save integration' when the
\* store rejects the upsert; for any other provider the connect is refused as
\* 'Unsupported provider'. Every deployment run started with a demo credential returns
\* a result flagged simulated.
C15_DemoCredentialNeverValidated ==
    /\ \A k \in DemoConnects :
          IF ConnectSupported(connects[k].provider)
            THEN /\ connects[k].message \in {"connected", "Failed to save integration"}
                 /\ connects[k].success <=> connects[k].message = "connected"
            ELSE /\ ~connects[k].success
                 /\ connects[k].message = "Unsupported provider"
    /\ \A r \in DemoRunsReturned : ResponseIsDemo(runs[r].response)

\* C15, witness: a demo credential was connected with a token and the demo flag, and a
\* run that used it has returned its result.
C15_Witness ==
    /\ \E k \in DemoConnects : connects[k].success
    /\ \E r \in DemoRunsReturned :
          /\ ResponseIsDemo(runs[r].response)
          /\ integrations[<<runs[r].user, runs[r].provider>>].access_token = "real-token"

\* the statuses that mark a record as simulated
DemoMarkedStatuses == {"demo_deployment", "demo_complete"}

\* C16: the record of a run without a real credential never has status deployed: its
\* status is a demo-marked one or failed (or requires_setup when no credential is stored).
C16_DemoRecordIsDemoMarked ==
    \A r \in 1..Len(runs) :
        runs[r].pc # "returned" /\ ~runs[r].isReal /\ runs[r].dep # 0
        => deployments[runs[r].dep].status
              \in DemoMarkedStatuses \cup {"failed", "requires_setup"}

\* C17: a strategy attempt ends with a network error or timeout only after the call
\* that failed was made twice (one retry). Stated for the first strategy of a run,
\* whose calls are all the run's calls so far.
C17_NetworkErrorRetriedOnce ==
    \A r \in 1..Len(runs) :
        Len(runs[r].attempts) = 1 /\ runs[r].attempts[1].outcome = "network"
        => \E j \in 1..Len(runs[r].calls) :
              /\ j < Len(runs[r].calls)
              /\ runs[r].calls[j] = runs[r].calls[j + 1]

\* what EncryptedToken looks like: the record encryptToken returns
IsEnvelope(column) == "encryptedData" \in DOMAIN column

\* the secrets users hand over: provider tokens (the "none" of an absent row and the
\* demo placeholders connect invents are not secrets)
IsSecret(token) ==
    token # NoIntegration.access_token /\ \A p \in Providers : token # DemoTokenOf(p)

\* C18: no stored credential row holds a secret in plaintext: a row whose
\* encrypted-token column is not an encrypted envelope holds no real token.
C18_NoPlaintextSecretStored ==
    \A k \in DOMAIN integrations :
        IsEnvelope(integrations[k]) \/ ~IsSecret(integrations[k].access_token)

\* C19: decrypt(encrypt(s, o), o2) returns s when o2 = o and fails when o2 differs
\* from o, for every secret s and owner ids o, o2.
C19_DecryptOnlyForOwner ==
    \A i \in 1..Len(vault.opened) :
        vault.opened[i].result =
            IF vault.opened[i].reader = vault.opened[i].owner
              THEN vault.opened[i].secret
              ELSE DecryptFailed

\* an envelope opened by its owner and an envelope of the same owner refused to another
C19_Witness ==
    \E i, j \in 1..Len(vault.opened) :
        /\ vault.opened[i].owner = vault.opened[j].owner
        /\ vault.opened[i].reader = vault.opened[i].owner
        /\ vault.opened[i].result = vault.opened[i].secret
        /\ vault.opened[j].reader # vault.opened[j].owner
        /\ vault.opened[j].result = DecryptFailed

\* C20: rotation is isolated per credential: a pass of the loop that fails (decrypt,
\* refresh or update) leaves the stored column of that credential, and every other
\* row, as it was, and the rotation returns only after a pass for every row it found.
C20_RotationIsolatedPerItem ==
    [][/\ Len(vault'.log) = Len(vault.log) + 1
          /\ vault'.log[Len(vault'.log)].outcome # "rotated"
          => integrations' = integrations
       /\ vault'.pc = "returned" => Len(vault'.log) = Len(vault'.items)]_vars

\* the rotation returned after a pass that failed and a later pass that rotated
C20_Witness ==
    /\ vault.pc = "returned"
    /\ \E i, j \in 1..Len(vault.log) :
          /\ i < j
          /\ vault.log[i].outcome # "rotated"
          /\ vault.log[j].outcome = "rotated"
          /\ IsEnvelope(integrations[<<vault.user, vault.log[j].provider>>])
          /\ DecryptToken(integrations[<<vault.user, vault.log[j].provider>>],
                          vault.user) = "refreshed-token"

LogLevels == {"info", "warning", "error", "success"}

\* the entries of a log, as a set
LogEntries(logs) == {logs[i] : i \in 1..Len(logs)}

\* C21: every status a record takes (the one it is created with, and each later
\* change) comes with at least one log entry that was not in its log before, and
\* every log entry has a timestamp and a level among info, warning, error, success.
C21_TransitionWritesLog ==
    [][\A d \in 1..Len(deployments') :
          /\ \/ d <= Len(deployments) /\ deployments'[d].status = deployments[d].status
             \/ LogEntries(deployments'[d].logs)
                  \ (IF d <= Len(deployments) THEN LogEntries(deployments[d].logs) ELSE {})
                  # {}
          /\ \A e \in LogEntries(deployments'[d].logs) :
                /\ DOMAIN e = {"timestamp", "message", "level"}
                /\ e.level \in LogLevels
                /\ e.timestamp \in 0..now']_vars

\* a record that was created and later changed status twice over
C21_Witness ==
    \E d \in 1..Len(deployments) :
        /\ Len(trace[d].statuses) >= 2
        /\ deployments[d].status = "demo_complete"
        /\ deployments[d].logs # <<>>

\* C22: in every record the timestamps of the log are non-decreasing in log order,
\* also for the entries a timer callback or a catch block wrote.
C22_LogTimestampsOrdered ==
    \A d \in 1..Len(deployments) :
        \A i, j \in 1..Len(deployments[d].logs) :
            i <= j => deployments[d].logs[i].timestamp <= deployments[d].logs[j].timestamp

\* a log of several entries written after the record was created: by the success
\* path with the adapter's lines, and by a timer callback
C22_Witness ==
    /\ \E d \in 1..Len(deployments) :
          /\ deployments[d].status = "deployed"
          /\ Len(deployments[d].logs) > 3
          /\ deployments[d].logs[1].timestamp > deployments[d].startedAt
    /\ \E d \in 1..Len(deployments) :
          /\ deployments[d].status = "demo_complete"
          /\ Len(deployments[d].logs) >= 2
          /\ deployments[d].logs[1].timestamp > deployments[d].startedAt

\* the analysis calls the rule-based detection answered
RuleBasedCalls ==
    {i \in 1..Len(analysis.calls) :
        analysis.calls[i].reply \in RuleBasedReplies /\ ~analysis.calls[i].raised}

\* the exclusions the rule of a framework declares: reactSpaDetection's
\* dependencies.next and dependencies.gatsby
RuleExclusions(framework) == IF framework = "React" THEN {"next", "gatsby"} ELSE {}

\* C23: a detection rule with a satisfied exclusion condition never fires, whatever
\* its score: the framework an analysis detects by rule is never one whose rule
\* excludes a dependency the manifest has.
C23_ExcludedRuleNeverFires ==
    \A i \in RuleBasedCalls :
        RuleExclusions(analysis.calls[i].result.framework)
            \cap analysis.calls[i].repoData.packageJson.dependencies = {}

\* C25: detect is deterministic: two analysis calls on the same repository content
\* return the same result.
C25_AnalysisDeterministic ==
    \A i, j \in 1..Len(analysis.calls) :
        /\ analysis.calls[i].fetched /\ analysis.calls[j].fetched
        /\ analysis.calls[i].repoData = analysis.calls[j].repoData
        => /\ analysis.calls[i].raised = analysis.calls[j].raised
           /\ analysis.calls[i].result = analysis.calls[j].result

\* C26: for a repository whose only signal is the Dockerfile, detection returns
\* framework "Docker" with confidence exactly 1.0.
C26_DockerfileOnlyIsDocker ==
    \A i \in RuleBasedCalls :
        /\ analysis.calls[i].repoData.packageJson.kind = "absent"
        /\ analysis.calls[i].repoData.dockerFile
        /\ analysis.calls[i].repoData.directories = {}
        => /\ analysis.calls[i].result.framework = "Docker"
           /\ analysis.calls[i].result.confidence = 100

\* C27: for the signals dependency next and directory app, detection returns
\* "Next.js" with confidence at least 0.9 and the first ranked provider's rationale
\* mentions framework affinity.
C27_NextAppDirIsNextJs ==
    \A i \in RuleBasedCalls :
        /\ analysis.calls[i].repoData.packageJson.kind = "object"
        /\ analysis.calls[i].repoData.packageJson.dependencies = {"next"}
        /\ analysis.calls[i].repoData.directories = {"app"}
        /\ ~analysis.calls[i].repoData.dockerFile
        => /\ analysis.calls[i].result.framework = "Next.js"
           /\ analysis.calls[i].result.confidence >= 90
           /\ analysis.calls[i].result.options # <<>>
           /\ analysis.calls[i].result.options[1].reason = "framework affinity"

\* C28: when no rule fires the result is a generic fallback of confidence at most 0.6.
C28_FallbackConfidenceLow ==
    \A i \in RuleBasedCalls :
        analysis.calls[i].result.framework = "Unknown"
        => analysis.calls[i].result.confidence <= 60

\* the repository data of a call as it is when package.json is not there
WithoutManifest(repoData) ==
    [repoData EXCEPT !.packageJson = Manifest("absent", FALSE, {}, {})]

\* the analysis calls that fetched a package.json that does not parse
MalformedManifestCalls ==
    {i \in 1..Len(analysis.calls) :
        /\ analysis.calls[i].fetched
        /\ analysis.calls[i].file.present
        /\ ~analysis.calls[i].file.json}

C24_GreatestScoreWins ==
    \A i \in 1..Len(analysis.detected) :
        ~analysis.detected[i].raised
        => \A k \in FiringRules(MergedDependencies(analysis.detected[i].packageJson)) :
              /\ DetectRules[k].confidence <= analysis.detected[i].rule.confidence
              /\ DetectRules[k].confidence = analysis.detected[i].rule.confidence
                 => \E j \in 1..k : DetectRules[j] = analysis.detected[i].rule

\* C30: for every analysis input the ranking call returns a ranked provider list, the
\* list is sorted in non-increasing score order, and its first entry is a provider
\* whose score is maximal among all known providers.
C30_RankingSortedMaxFirst ==
    \A i \in 1..Len(analysis.ranked) :
        LET list == analysis.ranked[i].recommendations
        IN /\ analysis.ranked[i].thrown = "none"
           /\ \A j, k \in 1..Len(list) : j <= k => list[j].score >= list[k].score
           /\ list # <<>>
           /\ \A p \in 1..Len(MatcherProviders) :
                 CalculateProviderScore(analysis.ranked[i].analysis,
                                        ProviderCapabilities(MatcherProviders[p]),
                                        analysis.ranked[i].preferences).total
                 <= list[1].score

\* a URL a provider answered with, as opposed to none and to the -demo address
\* createSiteFromRepo makes up when nothing was created
IsLiveUrl(url) == url # NoUrl /\ url.host # NetlifyDemoUrl(url.site).host

\* C31: every record with status deployed has a non-empty live URL: a record becomes
\* deployed only when a successful strategy yielded a URL.
C31_DeployedHasLiveUrl ==
    \A d \in 1..Len(deployments) :
        deployments[d].status = "deployed" => IsLiveUrl(deployments[d].url)

\* C32: the delayed demo-completion callback, when it fires and when its update is
\* answered, finds its record in the in-progress status it had when the callback was
\* scheduled (no step wrote a status in between); firing changes no record, and the
\* update moves the record to demo_complete or leaves it alone; it never overwrites a
\* status such as failed.
C32_DemoCompletionInsideLifecycle ==
    [][/\ \A t \in timers \ timers' :
             /\ deployments[t.dep].status \in InProgressStatuses
             /\ Len(trace[t.dep].statuses) = 1
             /\ deployments' = deployments
       /\ \A c \in callbacks \ callbacks' :
             /\ deployments[c.dep].status \in InProgressStatuses
             /\ Len(trace[c.dep].statuses) = 1
             /\ deployments'[c.dep].status \in {"demo_complete", deployments[c.dep].status}
             /\ \A d \in (1..Len(deployments)) \ {c.dep} :
                    deployments'[d] = deployments[d]]_vars

\* C32, witness: both callbacks have fired and their updates were applied, one on a
\* Vercel record and one on a Netlify record, and no callback is left.
C32_Witness ==
    /\ timers = {}
    /\ callbacks = {}
    /\ \E d, e \in 1..Len(deployments) :
          /\ deployments[d].provider = "vercel"
          /\ deployments[e].provider = "netlify"
          /\ trace[d].statuses = <<"deploying", "demo_complete">>
          /\ trace[e].statuses = <<"demo_deployment", "demo_complete">>

\* the statuses a response reports for a run it calls started and still going
ReportsInProgress(response) == response \in {"deploying", "demo_deployment"}

\* C33: at the moment a deployment request returns, the status it reports agrees with
\* the stored status of its record: a record already failed is not reported as
\* successful or deploying, and a record stored as deployed is not reported as deploying.
C33_ResponseAgreesWithRecord ==
    \A r \in 1..Len(runs) :
        runs[r].pc = "done" /\ runs[r].response # "throw"
        => LET stored == deployments[runs[r].dep].status IN
           /\ stored = "failed" => ~ReportsInProgress(runs[r].response)
           /\ stored = "deployed" => runs[r].response # "deploying"

\* the connect requests for (user, provider) that returned success, in order of handling
SuccessfulConnects(user, provider) ==
    {i \in 1..Len(connects) :
        /\ connects[i].user = user
        /\ connects[i].provider = provider
        /\ connects[i].success}

\* the greatest member of a non-empty set of indices
Latest(indices) == CHOOSE i \in indices : \A j \in indices : j <= i

\* C34: the stored credential of every (user, provider) is the one of the latest
\* successful connect request for it, and none when there was no such request: a
\* connect whose token fails the validation (or whose upsert rejects) leaves the store
\* exactly as it was.
C34_StoredIsLatestSuccessfulConnect ==
    \A u \in Users, p \in Providers :
        LET done == SuccessfulConnects(u, p) IN
        integrations[<<u, p>>] =
            IF done = {} THEN NoIntegration
            ELSE StoredToken(p, connects[Latest(done)].token, connects[Latest(done)].demo)

\* C34, witness: two successful connects of one user for one provider stored different
\* credentials, and a third connect for it failed the validation.
C34_Witness ==
    \E i, j, k \in 1..Len(connects) :
        /\ i < j /\ j < k
        /\ connects[i].user = connects[j].user /\ connects[j].user = connects[k].user
        /\ connects[i].provider = connects[j].provider
        /\ connects[j].provider = connects[k].provider
        /\ connects[i].success /\ connects[j].success
        /\ StoredToken(connects[i].provider, connects[i].token, connects[i].demo)
             # StoredToken(connects[j].provider, connects[j].token, connects[j].demo)
        /\ connects[k].message = "Token validation failed"

\* C35: status query and rollback are owner-only: called by a user with the id of a
\* deployment that user did not create (or of no deployment), getDeploymentStatus and
\* rollbackDeployment fail with 'Deployment not found' and create or modify no record.
C35_OwnerOnlyQueryAndRollback ==
    [][/\ Len(queries') > Len(queries)
          => LET q == queries'[Len(queries')] IN
             /\ deployments' = deployments
             /\ (q.dep \notin 1..Len(deployments)
                   \/ deployments[q.dep].createdBy # q.user)
                => q.result = "Deployment not found" /\ q.status = "none"
       /\ Len(rollbacks') > Len(rollbacks)
          => LET b == rollbacks'[Len(rollbacks')] IN
             /\ deployments' = deployments
             /\ (b.dep \notin 1..Len(deployments)
                   \/ deployments[b.dep].createdBy # b.user)
                => /\ b.result = "Deployment not found"
                   /\ b.pc = "returned"
                   /\ tenancy' = tenancy
       /\ \A k \in 1..Len(rollbacks) :
             rollbacks[k].result = "Deployment not found" => rollbacks'[k] = rollbacks[k]]_vars

\* C35, witness: a deployment of one user exists, another user has asked for its status
\* and for its rollback, and both were refused.
C35_Witness ==
    \E i \in 1..Len(queries), k \in 1..Len(rollbacks) :
        /\ queries[i].dep \in 1..Len(deployments)
        /\ deployments[queries[i].dep].createdBy # queries[i].user
        /\ queries[i].result = "Deployment not found"
        /\ rollbacks[k].dep \in 1..Len(deployments)
        /\ deployments[rollbacks[k].dep].status = "deployed"
        /\ deployments[rollbacks[k].dep].createdBy # rollbacks[k].user
        /\ rollbacks[k].result = "Deployment not found"
        /\ \E t \in RollbackCandidates(rollbacks[k].dep) : TRUE

\* the members of the organization that owns the project a row points to
ProjectMembers(projectId) ==
    UNION {o.members : o \in {o \in tenancy.organizations :
                                \E p \in tenancy.projects :
                                    ProjectId(p) = projectId /\ p.organization = o.slug}}

\* C36: records of different users are in the same project only when both users are
\* members of the project's organization, and a rollback copies only from a record of
\* a member of the project's organization, as the caller is.
C36_ProjectsSharedOnlyWithinOrganization ==
    /\ \A d, e \in 1..Len(deployments) :
          deployments[d].projectId = deployments[e].projectId
          => {deployments[d].createdBy, deployments[e].createdBy}
                \subseteq ProjectMembers(deployments[d].projectId)
    /\ \A k \in 1..Len(rollbacks) :
          rollbacks[k].result = "ok"
          => {rollbacks[k].user, deployments[rollbacks[k].target].createdBy}
                \subseteq ProjectMembers(deployments[rollbacks[k].target].projectId)

\* C37: the find-or-create of project and Personal organization is race-free: however
\* the awaits of concurrent requests of one user for one new project name interleave,
\* no request fails in it (each obtains its record), and one project of that name and
\* one organization of that user exist.
C37_FindOrCreateRaceFree ==
    \A r1, r2 \in 1..Len(runs) :
        /\ r1 # r2
        /\ runs[r1].user = runs[r2].user
        /\ runs[r1].project = runs[r2].project
        => /\ ~(runs[r1].response = "throw" /\ runs[r1].dep = 0)
           /\ runs[r1].dep # 0 /\ runs[r2].dep # 0
              => /\ Cardinality(ProjectsNamed(tenancy, runs[r1].project)) = 1
                 /\ Cardinality(OrganizationsOf(tenancy, runs[r1].user)) = 1

\* C38: the rollback target of D is a record that started before D, never one created
\* after D started (a record of an earlier rollback included), and two successful
\* rollbacks of the same D that saw the same statuses of the records that started
\* before D copy from the same target record.
C38_RepeatedRollbackSameTarget ==
    \A k, l \in 1..Len(rollbacks) :
        /\ rollbacks[k].result = "ok"
           => deployments[rollbacks[k].target].startedAt
                 < deployments[rollbacks[k].dep].startedAt
        /\ (/\ k < l
            /\ rollbacks[k].dep = rollbacks[l].dep
            /\ rollbacks[k].result = "ok" /\ rollbacks[l].result = "ok"
            /\ \A t \in 1..Len(rollbacks[k].seen) :
                  deployments[t].startedAt < deployments[rollbacks[k].dep].startedAt
                  => rollbacks[k].seen[t] = rollbacks[l].seen[t])
           => rollbacks[k].target = rollbacks[l].target

====
